---- MODULE Spec2Model ----
(***************************************************************************)
(* ResiboKo receipt tracker: AI response validation (geminiService.ts),    *)
(* save/delete handlers (App.tsx), entry forms (ManualEntry.tsx,           *)
(* ResultDisplay) and the period aggregation / CSV export of the           *)
(* transaction history view (TransactionHistory).                          *)
(***************************************************************************)
EXTENDS Integers, Sequences, FiniteSets, TLC

(***************************************************************************)
(* JavaScript values.  Every value carries its type tag t; s is the text   *)
(* of a string as a sequence of characters, n the value of a number (or    *)
(* 0/1 of a boolean).  Numbers are whole amounts.                          *)
(***************************************************************************)
NULL == [t |-> "null", s |-> << >>, n |-> 0]
UNDEF == [t |-> "undefined", s |-> << >>, n |-> 0]
Str(x) == [t |-> "string", s |-> x, n |-> 0]
Num(x) == [t |-> "number", s |-> << >>, n |-> x]
Bool(b) == [t |-> "boolean", s |-> << >>, n |-> IF b THEN 1 ELSE 0]

\* ToBoolean: the test applied by `x || y`, `x && y`, `!x` and `if (x)`.
Truthy(x) ==
    CASE x.t = "null" -> FALSE
      [] x.t = "undefined" -> FALSE
      [] x.t = "string" -> x.s # << >>
      [] x.t = "number" -> x.n # 0
      [] x.t = "boolean" -> x.n = 1
      [] OTHER -> TRUE

\* x || y
OrElse(x, y) == IF Truthy(x) THEN x ELSE y

(***************************************************************************)
(* services/geminiService.ts                                               *)
(***************************************************************************)
FoodAndDrink == << "F","o","o","d"," ","&"," ","D","r","i","n","k" >>
Groceries == << "G","r","o","c","e","r","i","e","s" >>
Transportation == << "T","r","a","n","s","p","o","r","t","a","t","i","o","n" >>
Shopping == << "S","h","o","p","p","i","n","g" >>
Utilities == << "U","t","i","l","i","t","i","e","s" >>
Entertainment == << "E","n","t","e","r","t","a","i","n","m","e","n","t" >>
HealthAndWellness == << "H","e","a","l","t","h"," ","&"," ","W","e","l","l","n","e","s","s" >>
Travel == << "T","r","a","v","e","l" >>
Rent == << "R","e","n","t" >>
Other == << "O","t","h","e","r" >>
Uncategorized == << "U","n","c","a","t","e","g","o","r","i","z","e","d" >>

categories ==
    << FoodAndDrink, Groceries, Transportation, Shopping, Utilities,
       Entertainment, HealthAndWellness, Travel, Rent, Other >>

\* Array.prototype.includes on the list above (strict equality: a value
\* that is not a string equals no member).
Includes(list, x) == x.t = "string" /\ \E i \in 1..Len(list) : list[i] = x.s

\* typeof data.total_amount === 'number' ? data.total_amount : null
ValidAmount_TypeUnchecked(a) == a
ValidAmount(a) == IF a.t = "number" THEN a ELSE NULL

\* data.category && categories.includes(data.category) ? data.category : 'Other'
ValidCategory_PassThrough(c) == IF Truthy(c) THEN c ELSE Str(Other)
ValidCategory(c) == IF Truthy(c) /\ Includes(categories, c) THEN c ELSE Str(Other)

\* The validation block of analyzeReceipt.
analyzeReceipt(data) ==
    [ transaction_name |-> OrElse(data.transaction_name, NULL),
      total_amount     |-> ValidAmount(data.total_amount),
      transaction_date |-> OrElse(data.transaction_date, NULL),
      category         |-> ValidCategory(data.category) ]

\* The validation block of analyzeTransactionFromVoice; td is `today`.
analyzeTransactionFromVoice_DateNotDefaulted(data, td) ==
    [ transaction_name |-> OrElse(data.transaction_name, NULL),
      total_amount     |-> ValidAmount(data.total_amount),
      transaction_date |-> OrElse(data.transaction_date, NULL),
      category         |-> ValidCategory(data.category) ]
analyzeTransactionFromVoice(data, td) ==
    [ transaction_name |-> OrElse(data.transaction_name, NULL),
      total_amount     |-> ValidAmount(data.total_amount),
      transaction_date |-> OrElse(data.transaction_date, Str(td)),
      category         |-> ValidCategory(data.category) ]

(***************************************************************************)
(* The JavaScript Date object.  A time value is a number of whole days     *)
(* since 1970-01-01 UTC plus the milliseconds into that day, or NaN        *)
(* (valid = FALSE).  tz is the offset of local time from UTC in            *)
(* milliseconds (positive east of Greenwich), the setting of the browser.  *)
(***************************************************************************)
MsPerDay == 24 * 60 * 60 * 1000
MsPerHour == 60 * 60 * 1000

NaNTime == [valid |-> FALSE, day |-> 0, ms |-> 0]
Time(d, m) == [valid |-> TRUE, day |-> d + (m \div MsPerDay), ms |-> m % MsPerDay]

\* Days from 1970-01-01 to the civil date y-m-d (m in 1..12).
DaysFromCivil(y, m, d) ==
    LET yy  == IF m <= 2 THEN y - 1 ELSE y
        era == yy \div 400
        yoe == yy - era * 400
        mp  == (m + 9) % 12
        doy == (153 * mp + 2) \div 5 + d - 1
        doe == yoe * 365 + (yoe \div 4) - (yoe \div 100) + doy
    IN  era * 146097 + doe - 719468

\* The civil date of a day number.
CivilFromDays(z0) ==
    LET z   == z0 + 719468
        era == z \div 146097
        doe == z - era * 146097
        yoe == (doe - (doe \div 1460) + (doe \div 36524) - (doe \div 146096)) \div 365
        doy == doe - (365 * yoe + (yoe \div 4) - (yoe \div 100))
        mp  == (5 * doy + 2) \div 153
        m   == IF mp < 10 THEN mp + 3 ELSE mp - 9
    IN  [ y |-> yoe + era * 400 + (IF m <= 2 THEN 1 ELSE 0),
          m |-> m,
          d |-> doy - ((153 * mp + 2) \div 5) + 1 ]

\* Local calendar fields of a time value.
LocalTime(t, tz) == Time(t.day, t.ms + tz)
FromLocal(day, ms, tz) == Time(day, ms - tz)
getFullYear(t, tz) == CivilFromDays(LocalTime(t, tz).day).y
getMonth(t, tz) == CivilFromDays(LocalTime(t, tz).day).m - 1
getDate(t, tz) == CivilFromDays(LocalTime(t, tz).day).d
\* 0 = Sunday .. 6 = Saturday; 1970-01-01 was a Thursday.
getDay(t, tz) == (LocalTime(t, tz).day + 4) % 7

\* new Date(year, monthIndex, day): local midnight; a month index outside
\* 0..11 and a day outside the month carry over.
NewDateYMD(y, mi, d, tz) ==
    FromLocal(DaysFromCivil(y + (mi \div 12), (mi % 12) + 1, 1) + d - 1, 0, tz)

\* date.setDate(n): same local month and time of day, day of month n
\* (n <= 0 or beyond the month's end carries over).
setDate(t, n, tz) ==
    LET l == LocalTime(t, tz)
        c == CivilFromDays(l.day)
    IN  FromLocal(DaysFromCivil(c.y, c.m, 1) + n - 1, l.ms, tz)

\* date.setHours(h, min, sec, ms): same local day.
setHours(t, h, mi, sec, ms, tz) ==
    FromLocal(LocalTime(t, tz).day, ((h * 60 + mi) * 60 + sec) * 1000 + ms, tz)

\* a >= b and a <= b on Date objects: false when either is NaN.
DateGE(a, b) ==
    a.valid /\ b.valid /\ (a.day > b.day \/ (a.day = b.day /\ a.ms >= b.ms))
DateLE(a, b) == DateGE(b, a)

(***************************************************************************)
(* Text of numbers and dates.                                              *)
(***************************************************************************)
Digits == << "0", "1", "2", "3", "4", "5", "6", "7", "8", "9" >>
IsDigit(c) == \E i \in 1..10 : Digits[i] = c
DigitVal(c) == (CHOOSE i \in 1..10 : Digits[i] = c) - 1
AllDigits(cs) == \A i \in 1..Len(cs) : IsDigit(cs[i])

RECURSIVE DigitsValue(_)
DigitsValue(cs) ==
    IF cs = << >> THEN 0
    ELSE 10 * DigitsValue(SubSeq(cs, 1, Len(cs) - 1)) + DigitVal(cs[Len(cs)])

RECURSIVE NatToString(_)
NatToString(k) ==
    IF k < 10 THEN << Digits[k + 1] >>
    ELSE NatToString(k \div 10) \o << Digits[(k % 10) + 1] >>

\* Number.prototype.toString for whole numbers.
NumberToString(k) == IF k < 0 THEN << "-" >> \o NatToString(0 - k) ELSE NatToString(k)

\* String.prototype.padStart(w, '0').
RECURSIVE PadStart(_, _)
PadStart(cs, w) == IF Len(cs) >= w THEN cs ELSE PadStart(<< "0" >> \o cs, w)
Pad(k, w) == PadStart(NatToString(k), w)

\* The YYYY-MM-DD text of a civil date (the value of an <input type="date">
\* and of toISOString().slice(0, 10)).
IsoText(y, m, d) == Pad(y, 4) \o << "-" >> \o Pad(m, 2) \o << "-" >> \o Pad(d, 2)

MonthNames ==
    << << "J","a","n" >>, << "F","e","b" >>, << "M","a","r" >>, << "A","p","r" >>,
       << "M","a","y" >>, << "J","u","n" >>, << "J","u","l" >>, << "A","u","g" >>,
       << "S","e","p" >>, << "O","c","t" >>, << "N","o","v" >>, << "D","e","c" >> >>

\* The "Mar 5, 2025" text of a civil date.
LongText(y, m, d) == MonthNames[m] \o << " " >> \o NatToString(d) \o << ",", " " >> \o Pad(y, 4)

IsLeap(y) == (y % 4 = 0 /\ y % 100 # 0) \/ y % 400 = 0
DaysInMonth(y, m) ==
    IF m = 2 THEN (IF IsLeap(y) THEN 29 ELSE 28)
    ELSE IF m \in {4, 6, 9, 11} THEN 30 ELSE 31

\* Date.parse of the date-only ISO form: midnight UTC of that day.
IsIsoDate(cs) ==
    /\ Len(cs) = 10
    /\ cs[5] = "-" /\ cs[8] = "-"
    /\ AllDigits(SubSeq(cs, 1, 4)) /\ AllDigits(SubSeq(cs, 6, 7)) /\ AllDigits(SubSeq(cs, 9, 10))
    /\ DigitsValue(SubSeq(cs, 6, 7)) \in 1..12
    /\ DigitsValue(SubSeq(cs, 9, 10)) \in
           1..DaysInMonth(DigitsValue(SubSeq(cs, 1, 4)), DigitsValue(SubSeq(cs, 6, 7)))
ParseIsoDate(cs) ==
    Time(DaysFromCivil(DigitsValue(SubSeq(cs, 1, 4)), DigitsValue(SubSeq(cs, 6, 7)),
                       DigitsValue(SubSeq(cs, 9, 10))), 0)

\* Date.parse of "Mon D, YYYY": midnight local time of that day.
IsLongDate(cs) ==
    /\ Len(cs) \in {11, 12}
    /\ \E m \in 1..12 : SubSeq(cs, 1, 3) = MonthNames[m]
    /\ cs[4] = " "
    /\ SubSeq(cs, Len(cs) - 5, Len(cs) - 4) = << ",", " " >>
    /\ AllDigits(SubSeq(cs, 5, Len(cs) - 6)) /\ AllDigits(SubSeq(cs, Len(cs) - 3, Len(cs)))
    /\ DigitsValue(SubSeq(cs, 5, Len(cs) - 6)) \in 1..28
ParseLongDate(cs, tz) ==
    LET m == CHOOSE k \in 1..12 : SubSeq(cs, 1, 3) = MonthNames[k]
    IN  FromLocal(DaysFromCivil(DigitsValue(SubSeq(cs, Len(cs) - 3, Len(cs))), m,
                                DigitsValue(SubSeq(cs, 5, Len(cs) - 6))), 0, tz)

\* new Date(value): a string is parsed, null is the number 0, undefined is
\* NaN, a number is a count of milliseconds since the epoch.
NewDate(v, tz) ==
    CASE v.t = "string" ->
             IF IsIsoDate(v.s) THEN ParseIsoDate(v.s)
             ELSE IF IsLongDate(v.s) THEN ParseLongDate(v.s, tz)
             ELSE NaNTime
      [] v.t = "null" -> Time(0, 0)
      [] v.t \in {"number", "boolean"} -> Time(0, v.n)
      [] OTHER -> NaNTime

(***************************************************************************)
(* TransactionHistory: date helpers, the filteredData memo, CSV export.    *)
(***************************************************************************)
\* diff = start.getDate() - day + (day === 0 ? -6 : 1)
WeekStartAdjust_NoSundayCase(day) == 1
WeekStartAdjust(day) == IF day = 0 THEN 0 - 6 ELSE 1

getWeekRange(date, tz) ==
    LET day   == getDay(date, tz)
        diff  == getDate(date, tz) - day + WeekStartAdjust(day)
        start == setHours(setDate(date, diff, tz), 0, 0, 0, 0, tz)
        end   == setHours(setDate(start, getDate(start, tz) + 6, tz), 23, 59, 59, 999, tz)
    IN  [start |-> start, end |-> end]

getQuarterRange(date, tz) ==
    LET quarter == getMonth(date, tz) \div 3
        start   == NewDateYMD(getFullYear(date, tz), quarter * 3, 1, tz)
        end     == setHours(NewDateYMD(getFullYear(start, tz), getMonth(start, tz) + 3, 0, tz),
                            23, 59, 59, 999, tz)
    IN  [start |-> start, end |-> end]

FilterTypes == {"Daily", "Weekly", "Monthly", "Quarterly", "Yearly", "All"}

\* receipts.filter(r => new Date(r.transaction_date!) >= start)
FilterFrom(receipts, start, tz) ==
    LET Keep(r) == DateGE(NewDate(r.transaction_date, tz), start)
    IN  SelectSeq(receipts, Keep)

\* receipts.filter(r => { const d = new Date(...); return d >= start && d <= end; })
FilterBetween(receipts, start, end, tz) ==
    LET Keep(r) == /\ DateGE(NewDate(r.transaction_date, tz), start)
                   /\ DateLE(NewDate(r.transaction_date, tz), end)
    IN  SelectSeq(receipts, Keep)

\* The switch on activeFilter: the list `filtered`.
FilterReceipts(receipts, f, nw, tz) ==
    CASE f = "Daily"     -> FilterFrom(receipts, setHours(nw, 0, 0, 0, 0, tz), tz)
      [] f = "Weekly"    -> LET range == getWeekRange(nw, tz)
                            IN  FilterBetween(receipts, range.start, range.end, tz)
      [] f = "Monthly"   -> FilterFrom(receipts,
                                NewDateYMD(getFullYear(nw, tz), getMonth(nw, tz), 1, tz), tz)
      [] f = "Quarterly" -> FilterFrom(receipts, getQuarterRange(nw, tz).start, tz)
      [] f = "Yearly"    -> FilterFrom(receipts, NewDateYMD(getFullYear(nw, tz), 0, 1, tz), tz)
      [] OTHER           -> receipts

\* The reduce with an array in place of the object: one entry per receipt.
SummaryStep_EntryPerReceipt(acc, receipt) ==
    Append(acc, [category |-> OrElse(receipt.category, Str(Uncategorized)).s,
                 total    |-> OrElse(receipt.total_amount, Num(0)).n])

\* One step of the reduce: acc[category] = (acc[category] || 0) + (total_amount || 0).
\* The object acc is the sequence of its entries in insertion order.
SummaryStep(acc, receipt) ==
    LET category == OrElse(receipt.category, Str(Uncategorized)).s
        amount   == OrElse(receipt.total_amount, Num(0)).n
    IN  IF \E i \in 1..Len(acc) : acc[i].category = category
        THEN [i \in 1..Len(acc) |->
                 IF acc[i].category = category
                 THEN [category |-> category, total |-> acc[i].total + amount]
                 ELSE acc[i]]
        ELSE Append(acc, [category |-> category, total |-> amount])

RECURSIVE Summarize(_)
Summarize(filtered) ==
    IF filtered = << >> THEN << >>
    ELSE SummaryStep(Summarize(SubSeq(filtered, 1, Len(filtered) - 1)), filtered[Len(filtered)])

\* toLocaleDateString('en-US', {month: 'long', ...}) names the month in full.
LongMonthNames ==
    << << "J","a","n","u","a","r","y" >>, << "F","e","b","r","u","a","r","y" >>,
       << "M","a","r","c","h" >>, << "A","p","r","i","l" >>, << "M","a","y" >>,
       << "J","u","n","e" >>, << "J","u","l","y" >>, << "A","u","g","u","s","t" >>,
       << "S","e","p","t","e","m","b","e","r" >>, << "O","c","t","o","b","e","r" >>,
       << "N","o","v","e","m","b","e","r" >>, << "D","e","c","e","m","b","e","r" >> >>
SummaryFor == << "S","u","m","m","a","r","y"," ","f","o","r"," " >>
AllTransactions == << "A","l","l"," ","T","r","a","n","s","a","c","t","i","o","n","s" >>

\* toLocaleDateString() of the default locale, taken to be en-US: M/D/YYYY.
toLocaleDateString(t, tz) ==
    NatToString(getMonth(t, tz) + 1) \o << "/" >> \o NatToString(getDate(t, tz))
        \o << "/" >> \o NatToString(getFullYear(t, tz))

\* The title each case of the switch assigns.
PeriodTitle(f, nw, tz) ==
    CASE f = "All"       -> AllTransactions
      [] f = "Daily"     -> SummaryFor \o LongMonthNames[getMonth(nw, tz) + 1] \o << " " >>
                                \o NatToString(getDate(nw, tz)) \o << ",", " " >>
                                \o NatToString(getFullYear(nw, tz))
      [] f = "Weekly"    -> SummaryFor \o toLocaleDateString(getWeekRange(nw, tz).start, tz)
                                \o << " ", "-", " " >>
                                \o toLocaleDateString(getWeekRange(nw, tz).end, tz)
      [] f = "Monthly"   -> SummaryFor \o LongMonthNames[getMonth(nw, tz) + 1] \o << " " >>
                                \o NatToString(getFullYear(nw, tz))
      [] f = "Quarterly" -> SummaryFor \o << "Q" >> \o NatToString((getMonth(nw, tz) \div 3) + 1)
                                \o << " " >> \o NatToString(getFullYear(nw, tz))
      [] f = "Yearly"    -> SummaryFor \o NatToString(getFullYear(nw, tz))

\* The value of the useMemo for (receipts, activeFilter), evaluated at instant nw.
FilteredData(receipts, f, nw, tz) ==
    IF f # "All" THEN Summarize(FilterReceipts(receipts, f, nw, tz)) ELSE receipts

\* The concatenation of a sequence of strings.
RECURSIVE Flatten(_)
Flatten(ss) ==
    IF Len(ss) = 0 THEN << >>
    ELSE IF Len(ss) = 1 THEN ss[1]
    ELSE Flatten(SubSeq(ss, 1, Len(ss) \div 2)) \o Flatten(SubSeq(ss, (Len(ss) \div 2) + 1, Len(ss)))

\* Array.prototype.join
Join(parts, sep) ==
    Flatten([i \in 1..Len(parts) |-> IF i = 1 THEN parts[i] ELSE sep \o parts[i]])

\* encodeURI: the characters it escapes, with their escape sequences; every
\* other character of the export (letters, digits, ',', '#', '-', '&') is kept.
UriEscapes ==
    << [c |-> " ",  e |-> << "%", "2", "0" >>],
       [c |-> "\"", e |-> << "%", "2", "2" >>],
       [c |-> "%",  e |-> << "%", "2", "5" >>],
       [c |-> "\n", e |-> << "%", "0", "A" >>] >>

EncodeChar(c) ==
    IF \E i \in 1..Len(UriEscapes) : UriEscapes[i].c = c
    THEN UriEscapes[CHOOSE i \in 1..Len(UriEscapes) : UriEscapes[i].c = c].e
    ELSE << c >>

encodeURI(cs) == Flatten([i \in 1..Len(cs) |-> EncodeChar(cs[i])])

\* The scheme and media type in front of the data of the link.
DataUrlPrefix ==
    << "d","a","t","a",":","t","e","x","t","/","c","s","v",";",
       "c","h","a","r","s","e","t","=","u","t","f","-","8","," >>
CsvHeaderAll ==
    << "D","a","t","e",",","T","r","a","n","s","a","c","t","i","o","n",",",
       "A","m","o","u","n","t",",","C","a","t","e","g","o","r","y","\n" >>

\* name.replace(/"/g, '""')
DoubleQuotes(cs) ==
    Flatten([i \in 1..Len(cs) |-> IF cs[i] = "\"" THEN << "\"", "\"" >> ELSE << cs[i] >>])

\* One row of the All-period export.
CsvRowAll(r) ==
    << OrElse(r.transaction_date, Str(<< >>)).s,
       << "\"" >> \o (IF r.transaction_name.t = "string"
                      THEN DoubleQuotes(r.transaction_name.s) ELSE << >>) \o << "\"" >>,
       IF r.total_amount.t = "number" /\ r.total_amount.n # 0
       THEN NumberToString(r.total_amount.n) ELSE << "0" >>,
       OrElse(r.category, Str(Uncategorized)).s >>

\* handleDownloadCsv for the All filter: the href of the download link.
DownloadHrefAll(receipts) ==
    LET rows    == [i \in 1..Len(receipts) |-> Join(CsvRowAll(receipts[i]), << "," >>)]
        csvRows == Join(rows, << "\n" >>)
    IN  encodeURI(DataUrlPrefix \o CsvHeaderAll \o csvRows)

\* handleDownloadCsv for a summarized period.
CsvHeaderSummary ==
    << "C","a","t","e","g","o","r","y",",","T","o","t","a","l"," ",
       "A","m","o","u","n","t"," ","f","o","r"," " >>
DownloadHrefSummary(summary, title) ==
    LET rows    == [i \in 1..Len(summary) |->
                       Join(<< summary[i].category, NumberToString(summary[i].total) >>, << "," >>)]
        csvRows == Join(rows, << "\n" >>)
    IN  encodeURI(DataUrlPrefix \o CsvHeaderSummary \o title \o << "\n" >> \o csvRows)

\* What the browser saves when the link is followed: the data of the URL
\* (after the first comma) up to the fragment sign '#', escapes decoded.
FirstIndex(cs, c) ==
    IF \E i \in 1..Len(cs) : cs[i] = c
    THEN CHOOSE i \in 1..Len(cs) : cs[i] = c /\ \A j \in 1..(i - 1) : cs[j] # c
    ELSE Len(cs) + 1

DecodeEscape(e) ==
    IF \E i \in 1..Len(UriEscapes) : UriEscapes[i].e = e
    THEN UriEscapes[CHOOSE i \in 1..Len(UriEscapes) : UriEscapes[i].e = e].c
    ELSE "?"

decodeURI(cs) ==
    Flatten([i \in 1..Len(cs) |->
        IF cs[i] = "%" /\ i + 2 <= Len(cs) THEN << DecodeEscape(SubSeq(cs, i, i + 2)) >>
        ELSE IF (i > 1 /\ cs[i - 1] = "%") \/ (i > 2 /\ cs[i - 2] = "%") THEN << >>
        ELSE << cs[i] >>])

DownloadedFile(href) ==
    LET noFragment == SubSeq(href, 1, FirstIndex(href, "#") - 1)
        data       == SubSeq(noFragment, FirstIndex(noFragment, ",") + 1, Len(noFragment))
    IN  decodeURI(data)

(***************************************************************************)
(* Reading a CSV file back: rows end at a line feed, cells at a comma; a   *)
(* cell in double quotes may hold commas and line feeds, and a doubled     *)
(* quote in it stands for one quote.  A comma or line feed separates when  *)
(* the number of quotes in front of it is even.                            *)
(***************************************************************************)
Indices(cs) == [i \in 1..Len(cs) |-> i]
QuotesBefore(text, i) == Cardinality({j \in 1..(i - 1) : text[j] = "\""})
IsSeparator(text, i, c) == text[i] = c /\ QuotesBefore(text, i) % 2 = 0

\* The pieces of text between the separators c that stand outside quotes.
SplitOutsideQuotes(text, c) ==
    LET IsSep(i) == IsSeparator(text, i, c)
        seps     == SelectSeq(Indices(text), IsSep)
    IN  [k \in 1..(Len(seps) + 1) |->
            SubSeq(text,
                   (IF k = 1 THEN 1 ELSE seps[k - 1] + 1),
                   (IF k = Len(seps) + 1 THEN Len(text) ELSE seps[k] - 1))]

\* The text of a cell: the quotes around it removed, doubled quotes halved.
Unquote(cell) ==
    IF Len(cell) >= 2 /\ cell[1] = "\"" /\ cell[Len(cell)] = "\""
    THEN LET inner   == SubSeq(cell, 2, Len(cell) - 1)
             Kept(i) == ~ (inner[i] = "\"" /\ QuotesBefore(inner, i) % 2 = 1)
             kept    == SelectSeq(Indices(inner), Kept)
         IN  [k \in 1..Len(kept) |-> inner[kept[k]]]
    ELSE cell

ParseCsv(text) ==
    LET lines == SplitOutsideQuotes(text, "\n")
    IN  [l \in 1..Len(lines) |->
            LET cells == SplitOutsideQuotes(lines[l], ",")
            IN  [k \in 1..Len(cells) |-> Unquote(cells[k])]]

(***************************************************************************)
(* State.                                                                  *)
(***************************************************************************)
VARIABLES
    response,        \* the JSON object parsed from the model's reply
    today,           \* `today` of the voice call: toISOString().slice(0, 10)
    validatedData,   \* the Candidate Record the service call returned
    extractKind,     \* which service call was made: "none", "image", "voice", "insights", "leaks"
    replyKind,       \* what the call's request meets: "rejected", or the reply's text as JSON.parse
                     \* takes it: "malformed", "null", "object"
    requests,        \* number of generateContent requests the call has issued
    outcome,         \* how the call ended: "none", "returned", "raised"
    resultText,      \* the string returned by getSpendingAnalysis / findCashLeaks
    tz,              \* the browser's offset of local time from UTC
    now,             \* the clock reading `new Date()` of the last evaluation
    savedReceipts,   \* App: savedReceipts, the receipts prop of the history
    activeFilter,    \* TransactionHistory: activeFilter
    filteredData,    \* TransactionHistory: filteredData of the memo
    periodTitle,     \* TransactionHistory: periodTitle of the memo
    weekRange,       \* the {start, end} last returned by getWeekRange
    csvFile,         \* the file saved by the last Download CSV: name parts and content
    user,            \* App: user, the uid of the signed-in user or NoUser
    receiptData,     \* App: receiptData, << >> for null, else << candidate >>
    isLoading,       \* App: isLoading
    error,           \* App: error
    showManualEntry, \* App: showManualEntry
    formData,        \* ResultDisplay: formData while it is mounted, << >> otherwise
    manual,          \* ManualEntry: its four field states while mounted, << >> otherwise
    store,           \* Record Store: the documents of each user's collection
    nextId,          \* Record Store: the next identifier it assigns
    inflight,        \* store calls issued and not yet settled
    imagePending,    \* number of analyzeReceipt calls awaited by handleImageSelect
    lastCall,        \* the last call of handleSaveReceipt / handleDeleteReceipt and its effect
    showCamera,      \* App: showCamera
    stream,          \* CameraCapture: stream is set
    cameraLoading,   \* CameraCapture: isLoading
    cameraError,     \* CameraCapture: error is set
    cameraAcquiring, \* the mounted camera view's getUserMedia is pending
    lateAcquiring,   \* pending getUserMedia calls of camera views closed meanwhile
    liveCameraTracks,\* camera streams whose tracks have not been stopped
    capturePending,  \* toBlob callbacks not yet run
    isRecording,     \* ManualEntry: isRecording
    isProcessing,    \* ManualEntry: isProcessing
    entryError,      \* ManualEntry: error
    micAcquiring,    \* pending getUserMedia calls of the mounted entry view
    lateMicAcquiring,\* pending getUserMedia calls of entry views closed meanwhile
    liveMicTracks,   \* microphone streams whose tracks have not been stopped
    voicePending,    \* analyzeTransactionFromVoice calls awaited by the mounted entry view
    lateVoicePending,\* such calls awaited by entry views closed meanwhile
    query,           \* AIAnalytics: query
    analysis,        \* AIAnalytics: analysis
    aiLoading,       \* AIAnalytics: isLoading
    isAnalyzingLeaks,\* AIAnalytics: isAnalyzingLeaks
    aiError,         \* AIAnalytics: error
    insightsPending, \* getSpendingAnalysis calls awaited by handleGetInsights
    leaksPending,    \* findCashLeaks calls awaited by handleFindCashLeaks
    syncStatus,      \* TransactionHistory: syncStatus
    fetchPending,    \* fetch calls awaited by handleSync
    timers,          \* remaining time of each setTimeout of handleSync, oldest first
    sinceSynced,     \* time since syncStatus last became 'synced', up to the delay
    alerted,         \* the last step raised the alert of handleSync
    lastPost         \* the body of the POST the last step of the sync button issued

extractVars == << response, today, validatedData, extractKind, replyKind, requests, outcome,
                 resultText >>
historyVars == << tz, now, activeFilter, filteredData, periodTitle, weekRange, csvFile >>
cameraVars == << showCamera, stream, cameraLoading, cameraError, cameraAcquiring,
                lateAcquiring, liveCameraTracks, capturePending >>
recorderVars == << isRecording, isProcessing, entryError, micAcquiring, lateMicAcquiring,
                  liveMicTracks, voicePending, lateVoicePending >>
analyticsVars == << query, analysis, aiLoading, isAnalyzingLeaks, aiError, insightsPending,
                   leaksPending >>
syncVars == << syncStatus, fetchPending, timers, sinceSynced, alerted, lastPost >>
panelVars == << cameraVars, recorderVars, analyticsVars, syncVars >>
appVars == << user, receiptData, isLoading, error, showManualEntry, formData, manual,
             store, nextId, inflight, imagePending, lastCall, panelVars >>
vars == << extractVars, historyVars, savedReceipts, appVars >>

(***************************************************************************)
(* Bounds and sample inputs.                                               *)
(***************************************************************************)
MaxReceipts == 2
MaxWeekDays == 13
MaxCsvRows == 2
MaxDocs == 1
MaxInflight == 1
MaxStreams == 2
MaxPending == 2
MaxSummaryRows == 2

TimeZones == { 0 - 5 * MsPerHour, 0, 8 * MsPerHour }
LastMs == MsPerDay - 1

Snacks == << "S","n","a","c","k","s" >>
LowerRent == << "r","e","n","t" >>
Jeepney == << "J","e","e","p","n","e","y" >>
Coffee == << "C","o","f","f","e","e" >>
Garbage == << "s","o","o","n" >>

\* Replies of the model: every field absent, null, or of any JSON type.
Responses ==
    [ transaction_name : { UNDEF, NULL, Str(<< >>), Str(Coffee), Num(7) },
      total_amount     : { UNDEF, NULL, Num(0), Num(120), Str(<< "1", "2", "0" >>), Bool(TRUE) },
      transaction_date : { UNDEF, NULL, Str(<< >>), Str(IsoText(2025, 3, 5)) },
      category         : { UNDEF, NULL, Str(<< >>), Str(Rent), Str(Other), Str(FoodAndDrink),
                           Str(Snacks), Str(LowerRent), Num(3), Bool(TRUE) } ]
Todays == { IsoText(2025, 3, 6), IsoText(2025, 12, 31) }

NoData == [ transaction_name |-> NULL, total_amount |-> NULL,
            transaction_date |-> NULL, category |-> NULL ]

(***************************************************************************)
(* Record Store: the order of a snapshot.  The subscription's query is     *)
(* orderBy("transaction_date", "desc"); the store orders null before       *)
(* numbers before strings, and strings by their characters' codes.         *)
(***************************************************************************)
CharOrder ==
    << "\n", " ", "\"", "#", "%", "&", ",", "-", "/",
       "0", "1", "2", "3", "4", "5", "6", "7", "8", "9",
       "A", "B", "C", "D", "E", "F", "G", "H", "I", "J", "K", "L", "M",
       "N", "O", "P", "Q", "R", "S", "T", "U", "V", "W", "X", "Y", "Z",
       "a", "b", "c", "d", "e", "f", "g", "h", "i", "j", "k", "l", "m",
       "n", "o", "p", "q", "r", "s", "t", "u", "v", "w", "x", "y", "z" >>
CharCode(c) == CHOOSE i \in 1..Len(CharOrder) : CharOrder[i] = c

\* a <= b for strings.
StringLE(a, b) ==
    \/ \E k \in 1..Len(a) :
          /\ k <= Len(b)
          /\ \A j \in 1..(k - 1) : a[j] = b[j]
          /\ CharCode(a[k]) < CharCode(b[k])
    \/ (Len(a) <= Len(b) /\ \A j \in 1..Len(a) : a[j] = b[j])

TypeRank(v) ==
    CASE v.t = "null" -> 0 [] v.t = "boolean" -> 1 [] v.t = "number" -> 2 [] OTHER -> 3

\* a sorts no later than b in ascending order of the store.
StoreLE(a, b) ==
    \/ TypeRank(a) < TypeRank(b)
    \/ /\ TypeRank(a) = TypeRank(b)
       /\ IF a.t = "string" THEN StringLE(a.s, b.s) ELSE a.n <= b.n

IsDateDescending(rs) ==
    \A i \in 1..(Len(rs) - 1) : StoreLE(rs[i + 1].transaction_date, rs[i].transaction_date)

\* The documents of a snapshot with the identifiers of the store.
SavedReceipt(id, r) ==
    [ id |-> id, transaction_name |-> r.transaction_name, total_amount |-> r.total_amount,
      transaction_date |-> r.transaction_date, category |-> r.category ]
Snapshots(pool, maxLen) ==
    { [i \in 1..Len(rs) |-> SavedReceipt(i, rs[i])] :
        rs \in { q \in UNION { [1..k -> pool] : k \in 0..maxLen } : IsDateDescending(q) } }

(***************************************************************************)
(* Specification of the two extraction calls.                              *)
(***************************************************************************)
NoResponse == [ transaction_name |-> UNDEF, total_amount |-> UNDEF,
                transaction_date |-> UNDEF, category |-> UNDEF ]
NoRange == [start |-> NaNTime, end |-> NaNTime]
NoFile == [filter |-> "", date |-> << >>, content |-> << >>]

NoUser == "null"
Users == { "u1" }
\* The accounts of the store: the user above and a second one, and the
\* collections of all of them when the user's holds docs.
Accounts == Users \cup { "u2" }
StoreOf(docs) == [u \in Accounts |-> IF u \in Users THEN docs ELSE << >>]
NoError == [msg |-> "null", years |-> << >>]
NoCall == [op |-> "none", user |-> NoUser, data |-> NoData, id |-> 0, issued |-> << >>, error |-> NoError]

NoMessage == "null"

\* CameraCapture, ManualEntry's recorder, AIAnalytics and the sync button of
\* TransactionHistory in their initial states, no device in use, no request
\* pending.
CameraInitial == stream = FALSE /\ cameraLoading = TRUE /\ cameraError = FALSE
RecorderInitial == isRecording = FALSE /\ isProcessing = FALSE /\ entryError = NoMessage
AnalyticsInitial ==
    /\ query = << >> /\ analysis = "" /\ aiLoading = FALSE /\ isAnalyzingLeaks = FALSE
    /\ aiError = NoMessage
SyncInitial == syncStatus = "idle"
PanelsIdle ==
    /\ showCamera = FALSE /\ CameraInitial /\ cameraAcquiring = FALSE
    /\ lateAcquiring = 0 /\ liveCameraTracks = 0 /\ capturePending = 0
    /\ RecorderInitial /\ micAcquiring = 0 /\ lateMicAcquiring = 0 /\ liveMicTracks = 0
    /\ voicePending = 0 /\ lateVoicePending = 0
    /\ AnalyticsInitial /\ insightsPending = 0 /\ leaksPending = 0
    /\ SyncInitial /\ fetchPending = 0 /\ timers = << >> /\ sinceSynced = 0
    /\ alerted = FALSE /\ lastPost = << >>
\* The App after construction, nobody signed in, an empty store.
AppIdle ==
    /\ user = NoUser /\ receiptData = << >> /\ isLoading = FALSE /\ error = NoError
    /\ showManualEntry = FALSE /\ formData = << >> /\ manual = << >>
    /\ store = StoreOf(<< >>) /\ nextId = 1
    /\ inflight = << >> /\ imagePending = 0 /\ lastCall = NoCall
    /\ PanelsIdle

NoText == "none"
ExtractIdle ==
    /\ response = NoResponse /\ today = IsoText(2025, 3, 6)
    /\ validatedData = NoData /\ extractKind = "none"
    /\ replyKind = "object" /\ requests = 0 /\ outcome = "none" /\ resultText = NoText
HistoryIdle ==
    /\ tz = 0 /\ now = Time(DaysFromCivil(2025, 3, 6), 0)
    /\ activeFilter = "All" /\ filteredData = << >> /\ periodTitle = AllTransactions
    /\ weekRange = NoRange /\ csvFile = NoFile

\* The await of generateContent rejects; JSON.parse throws on text that is
\* not JSON; reading a property of the parsed value throws when it is null.
\* Nothing catches these in analyzeReceipt, and analyzeTransactionFromVoice
\* and findCashLeaks throw again what they catch.
Raises_Swallowed(rk) == FALSE
Raises(rk) == rk \in { "rejected", "malformed", "null" }

\* analyzeReceipt: one request; the reply is parsed and validated.
AnalyzeReceipt ==
    /\ extractKind = "none"
    /\ extractKind' = "image"
    /\ requests' = requests + 1
    /\ IF Raises(replyKind)
       THEN validatedData' = validatedData /\ outcome' = "raised"
       ELSE validatedData' = analyzeReceipt(response) /\ outcome' = "returned"
    /\ UNCHANGED << response, today, replyKind, resultText, historyVars, savedReceipts,
                    appVars >>

\* analyzeTransactionFromVoice: one request; the reply is parsed and validated.
AnalyzeTransactionFromVoice ==
    /\ extractKind = "none"
    /\ extractKind' = "voice"
    /\ requests' = requests + 1
    /\ IF Raises(replyKind)
       THEN validatedData' = validatedData /\ outcome' = "raised"
       ELSE validatedData' = analyzeTransactionFromVoice(response, today)
            /\ outcome' = "returned"
    /\ UNCHANGED << response, today, replyKind, resultText, historyVars, savedReceipts,
                    appVars >>

\* The strings the two analysis calls return.
ReplyText == "response.text"
NoTransactionsText == "Wala pang transactions to analyze! Add some receipts first."

\* getSpendingAnalysis(transactions, query): one request, the reply's text is
\* returned as it is.
GetSpendingAnalysis ==
    /\ extractKind = "none"
    /\ extractKind' = "insights"
    /\ requests' = requests + 1
    /\ IF replyKind = "rejected"
       THEN resultText' = resultText /\ outcome' = "raised"
       ELSE resultText' = ReplyText /\ outcome' = "returned"
    /\ UNCHANGED << response, today, validatedData, replyKind, historyVars, savedReceipts,
                    appVars >>

\* findCashLeaks without the test of the length: one request for every list.
FindCashLeaks_NoShortCircuit ==
    /\ extractKind = "none"
    /\ extractKind' = "leaks"
    /\ requests' = requests + 1
    /\ IF replyKind = "rejected"
       THEN resultText' = resultText /\ outcome' = "raised"
       ELSE resultText' = ReplyText /\ outcome' = "returned"
    /\ UNCHANGED << response, today, validatedData, replyKind, historyVars, savedReceipts,
                    appVars >>

\* findCashLeaks(transactions): no request for an empty list, one otherwise.
FindCashLeaks ==
    /\ extractKind = "none"
    /\ extractKind' = "leaks"
    /\ IF Len(savedReceipts) = 0
       THEN requests' = requests /\ resultText' = NoTransactionsText /\ outcome' = "returned"
       ELSE /\ requests' = requests + 1
            /\ IF replyKind = "rejected"
               THEN resultText' = resultText /\ outcome' = "raised"
               ELSE resultText' = ReplyText /\ outcome' = "returned"
    /\ UNCHANGED << response, today, validatedData, replyKind, historyVars, savedReceipts,
                    appVars >>

\* Transaction lists handed to the analysis calls.
AnalysisLists ==
    { << >>,
      << SavedReceipt(1, [ transaction_name |-> Str(Coffee), total_amount |-> Num(120),
                           transaction_date |-> Str(IsoText(2025, 3, 5)),
                           category |-> Str(Rent) ]) >> }

InitExtract ==
    /\ \/ replyKind = "object" /\ response \in Responses
       \/ replyKind \in { "rejected", "malformed", "null" } /\ response = NoResponse
    /\ today \in Todays
    /\ validatedData = NoData /\ extractKind = "none"
    /\ requests = 0 /\ outcome = "none" /\ resultText = NoText
    /\ HistoryIdle /\ savedReceipts \in AnalysisLists
    /\ AppIdle
NextExtract ==
    \/ AnalyzeReceipt
    \/ AnalyzeTransactionFromVoice
    \/ GetSpendingAnalysis
    \/ FindCashLeaks
SpecExtract == InitExtract /\ [][NextExtract]_vars

(***************************************************************************)
(* Specification of getWeekRange over reference dates.                     *)
(***************************************************************************)
DayTimes == { 0, 12 * MsPerHour, LastMs }
WeekBases ==
    { DaysFromCivil(2024, 2, 19), DaysFromCivil(2024, 12, 23), DaysFromCivil(2025, 2, 24) }
WeekDates(z) ==
    { FromLocal(b + k, ms, z) : b \in WeekBases, k \in 0..MaxWeekDays, ms \in DayTimes }

CallGetWeekRange(d) ==
    /\ now' = d
    /\ weekRange' = getWeekRange(d, tz)
    /\ UNCHANGED << extractVars, savedReceipts, tz, activeFilter, filteredData, periodTitle,
                    csvFile, appVars >>

InitWeek ==
    /\ ExtractIdle /\ AppIdle /\ savedReceipts = << >>
    /\ tz \in TimeZones /\ now = Time(DaysFromCivil(2025, 3, 6), 0)
    /\ activeFilter = "All" /\ filteredData = << >> /\ periodTitle = AllTransactions
    /\ weekRange = NoRange /\ csvFile = NoFile
NextWeek == \E d \in WeekDates(tz) : CallGetWeekRange(d)
SpecWeek == InitWeek /\ [][NextWeek]_vars

(***************************************************************************)
(* Specification of the history view over snapshots and clock readings.    *)
(***************************************************************************)
HistoryDays == { DaysFromCivil(2025, 3, 6), DaysFromCivil(2025, 3, 9), DaysFromCivil(1970, 1, 1) }
HistoryNows(z) == { FromLocal(d, ms, z) : d \in HistoryDays, ms \in { 12 * MsPerHour, LastMs } }

HistoryDates ==
    { NULL, Str(Garbage),
      Str(IsoText(2025, 3, 2)), Str(IsoText(2025, 3, 3)), Str(IsoText(2025, 3, 5)),
      Str(IsoText(2025, 3, 9)), Str(IsoText(2025, 3, 10)), Str(IsoText(2025, 4, 1)) }
HistoryPool ==
    { [ transaction_name |-> Str(x.name), total_amount |-> Num(x.amount),
        transaction_date |-> d, category |-> Str(x.category) ] :
      x \in { [name |-> Jeepney, amount |-> 15, category |-> Transportation],
              [name |-> Coffee, amount |-> 120, category |-> FoodAndDrink] },
      d \in HistoryDates }

\* A click on a filter button: the state changes and the memo is evaluated
\* again at the reading of the clock.
setActiveFilter(f) ==
    /\ activeFilter' = f
    /\ filteredData' = FilteredData(savedReceipts, f, now, tz)
    /\ periodTitle' = PeriodTitle(f, now, tz)
    /\ UNCHANGED << extractVars, savedReceipts, tz, now, weekRange, csvFile, appVars >>

InitHistory ==
    /\ ExtractIdle /\ AppIdle
    /\ tz \in TimeZones /\ now \in HistoryNows(tz)
    /\ savedReceipts \in Snapshots(HistoryPool, MaxReceipts)
    /\ activeFilter = "All" /\ filteredData = savedReceipts /\ periodTitle = AllTransactions
    /\ weekRange = NoRange /\ csvFile = NoFile
NextHistory == \E f \in FilterTypes : setActiveFilter(f)
SpecHistory == InitHistory /\ [][NextHistory]_vars

(***************************************************************************)
(* Specification of the CSV export over snapshots whose names and dates    *)
(* hold commas, quotes and other punctuation.                              *)
(***************************************************************************)
CsvNames == { << "a" >>, << "a", ",", "b" >>, << "\"", "a", "\"" >>, << "#", "1" >> }
CsvPool ==
    [ transaction_name : { Str(x) : x \in CsvNames },
      total_amount     : { Num(0), Num(15) },
      transaction_date : { Str(IsoText(2025, 3, 5)), Str(LongText(2025, 3, 5)) },
      category         : { Str(FoodAndDrink) } ]

\* new Date().toISOString().slice(0, 10): the UTC date of the clock reading.
toISODate(t) == LET c == CivilFromDays(t.day) IN IsoText(c.y, c.m, c.d)

\* handleDownloadCsv; the buttons are rendered when receipts.length > 0.
handleDownloadCsv ==
    /\ Len(savedReceipts) > 0
    /\ csvFile' =
         [ filter  |-> activeFilter,
           date    |-> toISODate(now),
           content |-> DownloadedFile(IF activeFilter = "All"
                                      THEN DownloadHrefAll(filteredData)
                                      ELSE DownloadHrefSummary(filteredData, periodTitle)) ]
    /\ UNCHANGED << extractVars, savedReceipts, tz, now, activeFilter, filteredData,
                    periodTitle, weekRange, appVars >>

InitCsv ==
    /\ ExtractIdle /\ AppIdle
    /\ tz = 8 * MsPerHour /\ now = FromLocal(DaysFromCivil(2025, 3, 6), 12 * MsPerHour, tz)
    /\ savedReceipts \in Snapshots(CsvPool, MaxCsvRows)
    /\ activeFilter = "All" /\ filteredData = savedReceipts /\ periodTitle = AllTransactions
    /\ weekRange = NoRange /\ csvFile = NoFile
NextCsv == handleDownloadCsv \/ \E f \in FilterTypes : setActiveFilter(f)
SpecCsv == InitCsv /\ [][NextCsv]_vars

(***************************************************************************)
(* Properties of the extraction calls (SpecExtract).                       *)
(***************************************************************************)
IsEnumerated(c) == c.t = "string" /\ \E i \in 1..10 : categories[i] = c.s

\* C1: every Candidate Record returned by analyzeReceipt or
\* analyzeTransactionFromVoice has a category that is one of the ten
\* enumerated categories, "Other" whenever the reply's category is not one of
\* them, and a total_amount that is a number or null.
C1_ExtractedCategoryAndAmount ==
    (extractKind \in { "image", "voice" } /\ outcome = "returned") =>
        /\ Len(categories) = 10
        /\ IsEnumerated(validatedData.category)
        /\ (~ IsEnumerated(response.category) => validatedData.category = Str(Other))
        /\ (IsEnumerated(response.category) => validatedData.category = response.category)
        /\ validatedData.total_amount.t \in {"number", "null"}

\* A reply with a string where the amount should be and a category outside
\* the list has been validated.
C1_Witness ==
    /\ extractKind = "voice"
    /\ response.total_amount.t = "string"
    /\ response.category = Str(Snacks)
    /\ validatedData.category = Str(Other)
    /\ validatedData.total_amount = NULL

(***************************************************************************)
(* Properties of getWeekRange (SpecWeek).                                  *)
(***************************************************************************)
\* 0 = Monday .. 6 = Sunday of a local day number.
DaysSinceMonday(day) == (day + 3) % 7

\* C5: for every reference date getWeekRange returns the Monday 00:00:00.000
\* and the Sunday 23:59:59.999 of the week that contains the reference date.
C5_WeekRangeMondayToSunday ==
    weekRange # NoRange =>
        LET s == LocalTime(weekRange.start, tz)
            e == LocalTime(weekRange.end, tz)
            n == LocalTime(now, tz)
        IN  /\ weekRange.start.valid /\ weekRange.end.valid
            /\ DaysSinceMonday(s.day) = 0 /\ s.ms = 0
            /\ e.day = s.day + 6 /\ e.ms = LastMs
            /\ s.day <= n.day /\ n.day <= e.day

\* The reference date is a Sunday whose week began in the year before.
C5_Witness ==
    /\ weekRange # NoRange
    /\ DaysSinceMonday(LocalTime(now, tz).day) = 6
    /\ getFullYear(weekRange.start, tz) = 2024
    /\ getFullYear(now, tz) = 2025

(***************************************************************************)
(* Properties of the period summary (SpecHistory).  The period windows     *)
(* below are those of the design: local calendar days of the reading of    *)
(* the clock.                                                              *)
(***************************************************************************)
RECURSIVE SumTotals(_)
SumTotals(rows) == IF rows = << >> THEN 0 ELSE rows[1].total + SumTotals(Tail(rows))

RECURSIVE SumAmounts(_)
SumAmounts(rs) ==
    IF rs = << >> THEN 0
    ELSE (IF rs[1].total_amount.t = "number" THEN rs[1].total_amount.n ELSE 0)
         + SumAmounts(Tail(rs))

QuarterFirstMonth(t, z) == (((getMonth(t, z)) \div 3) * 3) + 1
WindowStart(f, nw, z) ==
    LET l == LocalTime(nw, z)
        c == CivilFromDays(l.day)
    IN  CASE f = "Daily"     -> FromLocal(l.day, 0, z)
          [] f = "Weekly"    -> FromLocal(l.day - DaysSinceMonday(l.day), 0, z)
          [] f = "Monthly"   -> FromLocal(DaysFromCivil(c.y, c.m, 1), 0, z)
          [] f = "Quarterly" -> FromLocal(DaysFromCivil(c.y, QuarterFirstMonth(nw, z), 1), 0, z)
          [] f = "Yearly"    -> FromLocal(DaysFromCivil(c.y, 1, 1), 0, z)
WindowEnd(f, nw, z) ==
    LET l == LocalTime(nw, z)
        c == CivilFromDays(l.day)
        q == QuarterFirstMonth(nw, z)
    IN  CASE f = "Weekly"    -> FromLocal(l.day - DaysSinceMonday(l.day) + 6, LastMs, z)
          [] f = "Quarterly" -> FromLocal(DaysFromCivil(c.y, q + 2, DaysInMonth(c.y, q + 2)),
                                          LastMs, z)
          [] OTHER           -> nw

\* The records whose date, read as the view reads it, lies inside the window.
InWindow(rs, f, nw, z) ==
    LET In(r) == /\ DateGE(NewDate(r.transaction_date, z), WindowStart(f, nw, z))
                 /\ DateLE(NewDate(r.transaction_date, z), WindowEnd(f, nw, z))
    IN  SelectSeq(rs, In)

\* C4: for every granularity other than All the per-category totals add up
\* to the amounts of exactly the records dated inside the window, both
\* bounds included; a record dated after the upper bound contributes nothing.
C4_TotalsEqualWindowSum ==
    activeFilter # "All" =>
        SumTotals(filteredData) = SumAmounts(InWindow(savedReceipts, activeFilter, now, tz))

\* The rows of a summary as a mapping from category to total.
AsMapping(rows) == { rows[i] : i \in 1..Len(rows) }

\* C6: Weekly on Thursday 2025-03-06 with Jeepney (15, 2025-03-03,
\* Transportation) and Coffee (120, 2025-03-05, Food & Drink) gives the
\* summary {Transportation: 15, Food & Drink: 120} in every time zone.
C6_WeeklyScenario ==
    ( /\ activeFilter = "Weekly"
      /\ LocalTime(now, tz).day = DaysFromCivil(2025, 3, 6)
      /\ Len(savedReceipts) = 2
      /\ \E i \in 1..2 :
            /\ savedReceipts[i].transaction_name = Str(Jeepney)
            /\ savedReceipts[i].total_amount = Num(15)
            /\ savedReceipts[i].transaction_date = Str(IsoText(2025, 3, 3))
            /\ savedReceipts[i].category = Str(Transportation)
      /\ \E i \in 1..2 :
            /\ savedReceipts[i].transaction_name = Str(Coffee)
            /\ savedReceipts[i].total_amount = Num(120)
            /\ savedReceipts[i].transaction_date = Str(IsoText(2025, 3, 5))
            /\ savedReceipts[i].category = Str(FoodAndDrink) )
    => AsMapping(filteredData) =
           { [category |-> Transportation, total |-> 15],
             [category |-> FoodAndDrink, total |-> 120] }

\* C7: Quarterly summarizes exactly the records dated from the first day of
\* the current quarter through its last day at 23:59:59.999.
C7_QuarterlyCoversQuarter ==
    activeFilter = "Quarterly" =>
        filteredData = Summarize(InWindow(savedReceipts, "Quarterly", now, tz))

\* C8: a record whose date is null or does not parse as a date is left out of
\* the summary of every granularity other than All.
HasParseableDate(r) == r.transaction_date.t = "string" /\ NewDate(r.transaction_date, 0).valid
DataRows(text) ==
    LET rows == ParseCsv(text)
        IsData(i) == i > 1 /\ rows[i] # << << >> >>
        kept == SelectSeq(Indices(rows), IsData)
    IN  [k \in 1..Len(kept) |-> rows[kept[k]]]

\* C9: the file of an All-period export, read back, gives for every record
\* and in the same order the date, name, amount and category of the record.
C9_CsvRoundTrip ==
    csvFile.filter = "All" =>
        LET rows == DataRows(csvFile.content)
        IN  /\ Len(rows) = Len(savedReceipts)
            /\ \A i \in 1..Len(rows) :
                  /\ Len(rows[i]) = 4
                  /\ rows[i][1] = savedReceipts[i].transaction_date.s
                  /\ rows[i][2] = savedReceipts[i].transaction_name.s
                  /\ AllDigits(rows[i][3])
                  /\ DigitsValue(rows[i][3]) = savedReceipts[i].total_amount.n
                  /\ rows[i][4] = savedReceipts[i].category.s

(***************************************************************************)
(* App, ResultDisplay and ManualEntry.                                     *)
(***************************************************************************)
\* The option lists of the two forms.
ManualEntryCategories ==
    << FoodAndDrink, Groceries, Transportation, Shopping, Utilities,
       Entertainment, HealthAndWellness, Travel, Other >>
ResultDisplayCategories ==
    << FoodAndDrink, Groceries, Transportation, Shopping, Utilities,
       Entertainment, HealthAndWellness, Travel, Other >>
\* The option list of the edit form (components/EditTransaction.tsx).
EditTransactionCategories ==
    << FoodAndDrink, Groceries, Transportation, Shopping, Utilities,
       Entertainment, HealthAndWellness, Travel, Rent, Other >>
Options(list) == { list[i] : i \in 1..Len(list) }

ErrorMessage(m) == [msg |-> m, years |-> << >>]
LoginToSave == ErrorMessage("You must be logged in to save receipts.")
IncompleteData == ErrorMessage("Cannot save incomplete receipt data.")
FailedToSave == ErrorMessage("Failed to save the receipt. Please try again.")
LoginToDelete == ErrorMessage("You must be logged in to delete receipts.")
FailedToDelete == ErrorMessage("Failed to delete the receipt. Please try again.")
FailedToAnalyze == ErrorMessage("Failed to analyze the receipt. Please try again.")
WrongYear(receiptYear, currentYear) ==
    [ msg |-> "This receipt is from ${receiptYear}. Only transactions for the current year (${currentYear}) are allowed.",
      years |-> << receiptYear, currentYear >> ]

\* NaN, and parseFloat / isNaN on the text of a whole number.
NaNValue == [t |-> "number", s |-> << "N", "a", "N" >>, n |-> 0]
isNaN(v) == v = NaNValue
parseFloat(cs) ==
    IF cs # << >> /\ AllDigits(cs) THEN Num(DigitsValue(cs))
    ELSE IF Len(cs) >= 2 /\ cs[1] = "-" /\ AllDigits(Tail(cs)) THEN Num(0 - DigitsValue(Tail(cs)))
    ELSE NaNValue

\* String(date.getFullYear())
YearText(d, z) == IF d.valid THEN NumberToString(getFullYear(d, z)) ELSE << "N", "a", "N" >>

\* ResultDisplay is rendered when a user is signed in, receiptData is set and
\* nothing is loading; formData starts as a copy of data and is set again
\* whenever data changes.
ResultDisplayMounted(u, rd, il) == u # NoUser /\ rd # << >> /\ ~ il
ResultDisplayState(u, rd, il) ==
    IF ~ ResultDisplayMounted(u, rd, il) THEN << >>
    ELSE IF ResultDisplayMounted(user, receiptData, isLoading) /\ rd = receiptData THEN formData
    ELSE rd

\* The snapshot of a collection: ordered by transaction_date, descending.
Before(a, b) ==
    \/ ~ StoreLE(a.transaction_date, b.transaction_date)
    \/ (a.transaction_date = b.transaction_date /\ a.id > b.id)
QuerySnapshot(docs) ==
    [k \in 1..Len(docs) |->
        docs[CHOOSE i \in 1..Len(docs) :
                 Cardinality({ j \in 1..Len(docs) : Before(docs[j], docs[i]) }) = k - 1]]

\* The history view follows its receipts prop.
HistoryFollows ==
    /\ filteredData' = FilteredData(savedReceipts', activeFilter, now, tz)
    /\ UNCHANGED << tz, now, activeFilter, periodTitle, weekRange, csvFile >>

\* onAuthStateChanged delivers u; the effect on [user] clears the receipts
\* when nobody is signed in and subscribes to u's collection otherwise.
onAuthStateChanged(u) ==
    /\ u # user
    /\ user' = u
    /\ savedReceipts' = IF u = NoUser THEN << >> ELSE savedReceipts
    /\ formData' = ResultDisplayState(u, receiptData, isLoading)
    /\ HistoryFollows
    /\ UNCHANGED << panelVars, extractVars, receiptData, isLoading, error, showManualEntry, manual,
                    store, nextId, inflight, imagePending >>
    /\ lastCall' = NoCall

\* The array the onSnapshot callback hands to setSavedReceipts: it starts
\* empty and receives every document of the snapshot, in its order.
receiptsFromFirestore_Merged(previous, querySnapshot) == previous \o querySnapshot
receiptsFromFirestore(previous, querySnapshot) == querySnapshot

\* The onSnapshot callback: the whole collection of the signed-in user.
onSnapshot ==
    /\ user # NoUser
    /\ savedReceipts' = receiptsFromFirestore(savedReceipts, QuerySnapshot(store[user]))
    /\ HistoryFollows
    /\ lastCall' = NoCall
    /\ UNCHANGED << panelVars, extractVars, user, receiptData, isLoading, error, showManualEntry,
                    formData, manual, store, nextId, inflight, imagePending >>

\* handleImageSelect up to the await; the uploader is rendered for a signed-in
\* user when there is no candidate and nothing is loading.
handleImageSelect ==
    /\ user # NoUser /\ receiptData = << >> /\ ~ isLoading /\ ~ showManualEntry /\ ~ showCamera
    /\ isLoading' = TRUE
    /\ error' = NoError
    /\ receiptData' = << >>
    /\ imagePending' = imagePending + 1
    /\ formData' = ResultDisplayState(user, << >>, TRUE)
    /\ UNCHANGED << panelVars, extractVars, historyVars, savedReceipts, user, showManualEntry, manual,
                    store, nextId, inflight >>
    /\ lastCall' = NoCall

\* handleImageSelect after analyzeReceipt has returned the validated reply r.
ImageAnalyzed(r) ==
    /\ imagePending > 0
    /\ LET data        == analyzeReceipt(r)
           receiptYear == YearText(NewDate(data.transaction_date, tz), tz)
           currentYear == YearText(now, tz)
       IN  IF Truthy(data.transaction_date) /\ receiptYear # currentYear
           THEN /\ error' = WrongYear(receiptYear, currentYear)
                /\ receiptData' = receiptData
           ELSE /\ receiptData' = << data >>
                /\ error' = error
    /\ isLoading' = FALSE
    /\ imagePending' = imagePending - 1
    /\ formData' = ResultDisplayState(user, receiptData', FALSE)
    /\ UNCHANGED << panelVars, extractVars, historyVars, savedReceipts, user, showManualEntry, manual,
                    store, nextId, inflight >>
    /\ lastCall' = NoCall

\* handleImageSelect after analyzeReceipt has thrown.
ImageAnalysisFailed ==
    /\ imagePending > 0
    /\ error' = FailedToAnalyze
    /\ isLoading' = FALSE
    /\ imagePending' = imagePending - 1
    /\ formData' = ResultDisplayState(user, receiptData, FALSE)
    /\ UNCHANGED << panelVars, extractVars, historyVars, savedReceipts, user, receiptData,
                    showManualEntry, manual, store, nextId, inflight >>
    /\ lastCall' = NoCall

\* ResultDisplay: handleChange on the name, date and category controls.
handleChange(name, value) ==
    /\ formData # << >> /\ ~ showManualEntry /\ ~ showCamera
    /\ formData' = << [formData[1] EXCEPT ![name] = Str(value)] >>
    /\ UNCHANGED << panelVars, extractVars, historyVars, savedReceipts, user, receiptData, isLoading,
                    error, showManualEntry, manual, store, nextId, inflight, imagePending >>
    /\ lastCall' = NoCall

\* ResultDisplay: handleAmountChange on the number input.
handleAmountChange(value) ==
    /\ formData # << >> /\ ~ showManualEntry /\ ~ showCamera
    /\ formData' = << [formData[1] EXCEPT
                          !.total_amount = IF value = << >> THEN NULL ELSE parseFloat(value)] >>
    /\ UNCHANGED << panelVars, extractVars, historyVars, savedReceipts, user, receiptData, isLoading,
                    error, showManualEntry, manual, store, nextId, inflight, imagePending >>
    /\ lastCall' = NoCall

\* The parts of handleSaveReceipt's condition.
NotSignedIn_Never(u) == FALSE
NotSignedIn(u) == u = NoUser

IsIncomplete_AmountUnchecked(data) ==
    \/ ~ Truthy(data.transaction_name)
    \/ ~ Truthy(data.transaction_date)
    \/ ~ Truthy(data.category)
IsIncomplete(data) ==
    \/ ~ Truthy(data.transaction_name)
    \/ data.total_amount = NULL
    \/ ~ Truthy(data.transaction_date)
    \/ ~ Truthy(data.category)

AddDocCall(u, data) == [op |-> "addDoc", user |-> u, id |-> 0, data |-> data]
DeleteDocCall(u, id) == [op |-> "deleteDoc", user |-> u, id |-> id, data |-> NoData]
Creates == Len(SelectSeq(inflight, LAMBDA c : c.op = "addDoc"))

\* handleSaveReceipt(data) up to the await of addDoc.  Reading user.uid of
\* null throws inside the try block.
handleSaveReceipt(data) ==
    /\ IF NotSignedIn(user)
       THEN /\ error' = LoginToSave
            /\ inflight' = inflight
       ELSE IF IsIncomplete(data)
       THEN /\ error' = IncompleteData
            /\ inflight' = inflight
       ELSE IF user = NoUser
       THEN /\ error' = FailedToSave
            /\ inflight' = inflight
       ELSE /\ Len(inflight) < MaxInflight
            /\ nextId + Creates <= MaxDocs
            /\ inflight' = Append(inflight, AddDocCall(user, data))
            /\ error' = error
    /\ lastCall' = [ op |-> "save", user |-> user, data |-> data, id |-> 0,
                     issued |-> SubSeq(inflight', Len(inflight) + 1, Len(inflight')),
                     error |-> error' ]
    /\ UNCHANGED << panelVars, extractVars, historyVars, savedReceipts, user, receiptData, isLoading,
                    showManualEntry, formData, manual, store, nextId, imagePending >>

\* ResultDisplay: handleSave.
handleSave ==
    /\ formData # << >> /\ ~ showManualEntry /\ ~ showCamera
    /\ handleSaveReceipt(formData[1])

\* handleDiscard, from the error panel or from ResultDisplay.
handleDiscard ==
    /\ user # NoUser /\ ~ isLoading /\ ~ showManualEntry /\ ~ showCamera
    /\ error # NoError \/ receiptData # << >>
    /\ receiptData' = << >>
    /\ error' = NoError
    /\ formData' = << >>
    /\ UNCHANGED << panelVars, extractVars, historyVars, savedReceipts, user, isLoading, showManualEntry,
                    manual, store, nextId, inflight, imagePending >>
    /\ lastCall' = NoCall

\* toISOString().slice(0, 10): the UTC calendar day.
TodayText == toISODate(now)

\* ManualEntry leaves the tree: it has no effect that stops a recorder or a
\* stream; its state is dropped and the calls it awaits go on without it.
RecorderUnmounts ==
    IF showManualEntry
    THEN /\ isRecording' = FALSE /\ isProcessing' = FALSE /\ entryError' = NoMessage
         /\ micAcquiring' = 0 /\ lateMicAcquiring' = lateMicAcquiring + micAcquiring
         /\ voicePending' = 0 /\ lateVoicePending' = lateVoicePending + voicePending
         /\ liveMicTracks' = liveMicTracks
    ELSE UNCHANGED recorderVars

\* The Manual / Voice Entry button: ManualEntry mounts with its initial state.
openManualEntry ==
    /\ user # NoUser /\ receiptData = << >> /\ ~ isLoading /\ ~ showManualEntry /\ ~ showCamera
    /\ showManualEntry' = TRUE
    /\ manual' = << [ transactionName |-> << >>, totalAmount |-> << >>,
                      transactionDate |-> TodayText,
                      category |-> ManualEntryCategories[3] ] >>
    /\ UNCHANGED << panelVars, extractVars, historyVars, savedReceipts, user, receiptData, isLoading,
                    error, formData, store, nextId, inflight, imagePending >>
    /\ lastCall' = NoCall

\* ManualEntry: onClose (the close button or the Escape key).
onClose ==
    /\ showManualEntry
    /\ showManualEntry' = FALSE
    /\ manual' = << >>
    /\ RecorderUnmounts
    /\ UNCHANGED << cameraVars, analyticsVars, syncVars, extractVars, historyVars, savedReceipts, user, receiptData, isLoading,
                    error, formData, store, nextId, inflight, imagePending >>
    /\ lastCall' = NoCall

\* ManualEntry: the four controlled inputs.
setManualField(field, value) ==
    /\ showManualEntry
    /\ manual' = << [manual[1] EXCEPT ![field] = value] >>
    /\ UNCHANGED << panelVars, extractVars, historyVars, savedReceipts, user, receiptData, isLoading,
                    error, showManualEntry, formData, store, nextId, inflight, imagePending >>
    /\ lastCall' = NoCall

\* Number.prototype.toString and the text a state setter receives.
ValueText(v) == IF v.t = "number" THEN NumberToString(v.n) ELSE v.s

\* ManualEntry: the recorder's onstop handler after analyzeTransactionFromVoice
\* has returned the validated reply r, followed by handleVoiceData.
FieldsAfterVoice(r) ==
    LET data == analyzeTransactionFromVoice(r, TodayText)
        m    == manual[1]
    IN  << [ transactionName |->
                 IF Truthy(data.transaction_name)
                 THEN ValueText(data.transaction_name) ELSE m.transactionName,
             totalAmount |->
                 IF Truthy(data.total_amount)
                 THEN ValueText(data.total_amount) ELSE m.totalAmount,
             transactionDate |->
                 IF Truthy(data.transaction_date)
                 THEN ValueText(data.transaction_date) ELSE m.transactionDate,
             category |->
                 IF Truthy(data.category)
                 THEN ValueText(data.category) ELSE m.category ] >>
handleVoiceData(r) ==
    /\ showManualEntry
    /\ manual' = FieldsAfterVoice(r)
    /\ UNCHANGED << panelVars, extractVars, historyVars, savedReceipts, user, receiptData, isLoading,
                    error, showManualEntry, formData, store, nextId, inflight, imagePending >>
    /\ lastCall' = NoCall

\* ManualEntry: handleSubmit; an invalid form only raises an alert.
handleSubmit ==
    /\ showManualEntry
    /\ LET m      == manual[1]
           amount == parseFloat(m.totalAmount)
       IN  IF m.transactionName # << >> /\ ~ isNaN(amount)
              /\ m.transactionDate # << >> /\ m.category # << >>
           THEN handleSaveReceipt([ transaction_name |-> Str(m.transactionName),
                                    total_amount |-> amount,
                                    transaction_date |-> Str(m.transactionDate),
                                    category |-> Str(m.category) ])
           ELSE UNCHANGED vars

Without(q, i) == SubSeq(q, 1, i - 1) \o SubSeq(q, i + 1, Len(q))

\* handleSaveReceipt after addDoc has resolved: the store has assigned an
\* identifier to the new document.
addDocResolved(i) ==
    /\ inflight[i].op = "addDoc"
    /\ store' = [store EXCEPT ![inflight[i].user] =
                     Append(@, SavedReceipt(nextId, inflight[i].data))]
    /\ nextId' = nextId + 1
    /\ inflight' = Without(inflight, i)
    /\ receiptData' = << >>
    /\ showManualEntry' = FALSE
    /\ manual' = << >>
    /\ formData' = << >>
    /\ RecorderUnmounts
    /\ UNCHANGED << cameraVars, analyticsVars, syncVars, extractVars, historyVars, savedReceipts, user, isLoading, error,
                    imagePending >>
    /\ lastCall' = NoCall

\* handleSaveReceipt with the two resets in a finally block: a failed save
\* closes the forms as well.
addDocRejected_ResetsInFinally(i) ==
    /\ inflight[i].op = "addDoc"
    /\ inflight' = Without(inflight, i)
    /\ error' = FailedToSave
    /\ receiptData' = << >>
    /\ showManualEntry' = FALSE
    /\ manual' = << >>
    /\ formData' = << >>
    /\ RecorderUnmounts
    /\ UNCHANGED << cameraVars, analyticsVars, syncVars, extractVars, historyVars, savedReceipts, user, isLoading,
                    store, nextId, imagePending >>
    /\ lastCall' = NoCall

\* handleSaveReceipt after addDoc has rejected.
addDocRejected(i) ==
    /\ inflight[i].op = "addDoc"
    /\ inflight' = Without(inflight, i)
    /\ error' = FailedToSave
    /\ UNCHANGED << panelVars, extractVars, historyVars, savedReceipts, user, receiptData, isLoading,
                    showManualEntry, formData, manual, store, nextId, imagePending >>
    /\ lastCall' = NoCall

\* handleDeleteReceipt removing the record from the set before the store does.
handleDeleteReceipt_Optimistic(id) ==
    /\ user # NoUser /\ ~ showManualEntry /\ ~ showCamera
    /\ \E i \in 1..Len(filteredData) : filteredData[i].id = id
    /\ IF NotSignedIn(user)
       THEN /\ error' = LoginToDelete
            /\ inflight' = inflight
       ELSE /\ Len(inflight) < MaxInflight
            /\ inflight' = Append(inflight, DeleteDocCall(user, id))
            /\ error' = error
    /\ lastCall' = [ op |-> "delete", user |-> user, data |-> NoData, id |-> id,
                     issued |-> SubSeq(inflight', Len(inflight) + 1, Len(inflight')),
                     error |-> error' ]
    /\ UNCHANGED << panelVars, extractVars, user, receiptData, isLoading,
                    showManualEntry, formData, manual, store, nextId, imagePending >>
    /\ savedReceipts' = SelectSeq(savedReceipts, LAMBDA r : r.id # id)
    /\ HistoryFollows

\* handleDeleteReceipt(id) up to the await of deleteDoc; the delete buttons
\* are those of the rows of TransactionHistory, rendered for a signed-in user.
handleDeleteReceipt(id) ==
    /\ user # NoUser /\ ~ showManualEntry /\ ~ showCamera
    /\ \E i \in 1..Len(filteredData) : filteredData[i].id = id
    /\ IF NotSignedIn(user)
       THEN /\ error' = LoginToDelete
            /\ inflight' = inflight
       ELSE /\ Len(inflight) < MaxInflight
            /\ inflight' = Append(inflight, DeleteDocCall(user, id))
            /\ error' = error
    /\ lastCall' = [ op |-> "delete", user |-> user, data |-> NoData, id |-> id,
                     issued |-> SubSeq(inflight', Len(inflight) + 1, Len(inflight')),
                     error |-> error' ]
    /\ UNCHANGED << panelVars, extractVars, historyVars, savedReceipts, user, receiptData, isLoading,
                    showManualEntry, formData, manual, store, nextId, imagePending >>

\* handleDeleteReceipt after deleteDoc has resolved; deleting a document that
\* no longer exists succeeds too.
deleteDocResolved(i) ==
    /\ inflight[i].op = "deleteDoc"
    /\ store' = [store EXCEPT ![inflight[i].user] =
                     SelectSeq(@, LAMBDA d : d.id # inflight[i].id)]
    /\ inflight' = Without(inflight, i)
    /\ UNCHANGED << panelVars, extractVars, historyVars, savedReceipts, user, receiptData, isLoading,
                    error, showManualEntry, formData, manual, nextId, imagePending >>
    /\ lastCall' = NoCall

\* handleDeleteReceipt after deleteDoc has rejected.
deleteDocRejected(i) ==
    /\ inflight[i].op = "deleteDoc"
    /\ inflight' = Without(inflight, i)
    /\ error' = FailedToDelete
    /\ UNCHANGED << panelVars, extractVars, historyVars, savedReceipts, user, receiptData, isLoading,
                    showManualEntry, formData, manual, store, nextId, imagePending >>
    /\ lastCall' = NoCall

\* Sample inputs of the application: replies of the model to a receipt image
\* and to a voice recording, and what the user types and picks.
Today == IsoText(2025, 3, 6)
LastYear == IsoText(2024, 12, 31)
Reply(name, amount, date, category) ==
    [ transaction_name |-> name, total_amount |-> amount,
      transaction_date |-> date, category |-> category ]
AppResponses ==
    { Reply(Str(Coffee), Num(120), Str(Today), Str(Rent)),
      Reply(Str(Coffee), Num(120), Str(Today), Str(LowerRent)),
      Reply(NULL, Str(<< "1", "2", "0" >>), NULL, NULL),
      Reply(Str(Coffee), Num(120), Str(LastYear), Str(Rent)) }
VoiceResponses ==
    { Reply(Str(Coffee), Num(120), NULL, Str(Rent)),
      Reply(NULL, NULL, NULL, Str(LowerRent)) }
TypedNames == { << >>, Coffee }
TypedAmounts == { << >>, << "1", "2", "0" >> }
TypedDates == { << >> }
PickedResultCategories == { ResultDisplayCategories[9] }
PickedManualCategories == { ManualEntryCategories[9] }

Init == ExtractIdle /\ HistoryIdle /\ savedReceipts = << >> /\ AppIdle

Next ==
    \/ \E u \in Users \cup { NoUser } : onAuthStateChanged(u)
    \/ onSnapshot
    \/ handleImageSelect
    \/ \E r \in AppResponses : ImageAnalyzed(r)
    \/ ImageAnalysisFailed
    \/ \E v \in TypedNames : handleChange("transaction_name", v)
    \/ \E v \in TypedDates : handleChange("transaction_date", v)
    \/ \E v \in PickedResultCategories : handleChange("category", v)
    \/ \E v \in TypedAmounts : handleAmountChange(v)
    \/ handleSave
    \/ handleDiscard
    \/ openManualEntry
    \/ onClose
    \/ \E v \in TypedNames : setManualField("transactionName", v)
    \/ \E v \in TypedAmounts : setManualField("totalAmount", v)
    \/ \E v \in TypedDates : setManualField("transactionDate", v)
    \/ \E v \in PickedManualCategories : setManualField("category", v)
    \/ \E r \in VoiceResponses : handleVoiceData(r)
    \/ handleSubmit
    \/ \E i \in 1..Len(inflight) : addDocResolved(i)
    \/ \E i \in 1..Len(inflight) : addDocRejected(i)
    \/ \E id \in 1..MaxDocs : handleDeleteReceipt(id)
    \/ \E i \in 1..Len(inflight) : deleteDocResolved(i)
    \/ \E i \in 1..Len(inflight) : deleteDocRejected(i)

Spec == Init /\ [][Next]_vars

(***************************************************************************)
(* CameraCapture and the camera of the device.                             *)
(***************************************************************************)
\* The effect that starts the camera has no dependencies: its cleanup closes
\* over the `stream` of the first render, which is null.
StreamOfCleanup == FALSE
Cleanup(live) == IF StreamOfCleanup THEN live - 1 ELSE live

\* CameraCapture leaves the tree: its cleanup runs, its state is dropped and
\* a getUserMedia call it awaits goes on without it.
CameraUnmounts ==
    IF showCamera
    THEN /\ showCamera' = FALSE
         /\ liveCameraTracks' = Cleanup(liveCameraTracks)
         /\ stream' = FALSE /\ cameraLoading' = TRUE /\ cameraError' = FALSE
         /\ cameraAcquiring' = FALSE
         /\ lateAcquiring' = lateAcquiring + (IF cameraAcquiring THEN 1 ELSE 0)
    ELSE UNCHANGED << showCamera, liveCameraTracks, stream, cameraLoading, cameraError,
                      cameraAcquiring, lateAcquiring >>

\* The Use Camera button: CameraCapture mounts and startCamera runs up to the
\* await of getUserMedia.
openCamera ==
    /\ user # NoUser /\ receiptData = << >> /\ ~ isLoading
    /\ ~ showManualEntry /\ ~ showCamera
    /\ liveCameraTracks + lateAcquiring < MaxStreams
    /\ showCamera' = TRUE
    /\ cameraAcquiring' = TRUE
    /\ stream' = FALSE /\ cameraLoading' = TRUE /\ cameraError' = FALSE
    /\ UNCHANGED << lateAcquiring, liveCameraTracks, capturePending >>
    /\ UNCHANGED << extractVars, historyVars, savedReceipts, user, receiptData, isLoading,
                    error, showManualEntry, formData, manual, store, nextId, inflight,
                    imagePending, lastCall, recorderVars, analyticsVars, syncVars >>

\* startCamera after getUserMedia has resolved with a stream.
cameraGranted ==
    /\ cameraAcquiring
    /\ cameraAcquiring' = FALSE
    /\ stream' = TRUE
    /\ liveCameraTracks' = liveCameraTracks + 1
    /\ UNCHANGED << showCamera, cameraLoading, cameraError, lateAcquiring, capturePending >>
    /\ UNCHANGED << extractVars, historyVars, savedReceipts, user, receiptData, isLoading,
                    error, showManualEntry, formData, manual, store, nextId, inflight,
                    imagePending, lastCall, recorderVars, analyticsVars, syncVars >>

\* startCamera after getUserMedia has rejected.
cameraDenied ==
    /\ cameraAcquiring
    /\ cameraAcquiring' = FALSE
    /\ cameraError' = TRUE
    /\ cameraLoading' = FALSE
    /\ UNCHANGED << showCamera, stream, lateAcquiring, liveCameraTracks, capturePending >>
    /\ UNCHANGED << extractVars, historyVars, savedReceipts, user, receiptData, isLoading,
                    error, showManualEntry, formData, manual, store, nextId, inflight,
                    imagePending, lastCall, recorderVars, analyticsVars, syncVars >>

\* getUserMedia resolves for a view that was closed meanwhile: setStream does
\* nothing and there is no video element, the stream stays as it was handed
\* over.
lateCameraGranted ==
    /\ lateAcquiring > 0
    /\ lateAcquiring' = lateAcquiring - 1
    /\ liveCameraTracks' = liveCameraTracks + 1
    /\ UNCHANGED << showCamera, stream, cameraLoading, cameraError, cameraAcquiring,
                    capturePending >>
    /\ UNCHANGED << extractVars, historyVars, savedReceipts, user, receiptData, isLoading,
                    error, showManualEntry, formData, manual, store, nextId, inflight,
                    imagePending, lastCall, recorderVars, analyticsVars, syncVars >>

\* getUserMedia rejects for a view that was closed meanwhile.
lateCameraDenied ==
    /\ lateAcquiring > 0
    /\ lateAcquiring' = lateAcquiring - 1
    /\ UNCHANGED << showCamera, stream, cameraLoading, cameraError, cameraAcquiring,
                    liveCameraTracks, capturePending >>
    /\ UNCHANGED << extractVars, historyVars, savedReceipts, user, receiptData, isLoading,
                    error, showManualEntry, formData, manual, store, nextId, inflight,
                    imagePending, lastCall, recorderVars, analyticsVars, syncVars >>

\* The video element can play the stream.
handleCanPlay ==
    /\ showCamera /\ stream /\ cameraLoading
    /\ cameraLoading' = FALSE
    /\ UNCHANGED << showCamera, stream, cameraError, cameraAcquiring, lateAcquiring,
                    liveCameraTracks, capturePending >>
    /\ UNCHANGED << extractVars, historyVars, savedReceipts, user, receiptData, isLoading,
                    error, showManualEntry, formData, manual, store, nextId, inflight,
                    imagePending, lastCall, recorderVars, analyticsVars, syncVars >>

\* CameraCapture's onClose: the Escape key, or one of the two close buttons.
closeCamera ==
    /\ showCamera
    /\ CameraUnmounts
    /\ UNCHANGED capturePending
    /\ UNCHANGED << extractVars, historyVars, savedReceipts, user, receiptData, isLoading,
                    error, showManualEntry, formData, manual, store, nextId, inflight,
                    imagePending, lastCall, recorderVars, analyticsVars, syncVars >>

\* handleCapture: the frame is drawn and toBlob is asked for a file; the
\* capture button is rendered once the video plays.
handleCapture ==
    /\ showCamera /\ ~ cameraLoading /\ ~ cameraError
    /\ capturePending + imagePending < MaxPending
    /\ capturePending' = capturePending + 1
    /\ UNCHANGED << showCamera, stream, cameraLoading, cameraError, cameraAcquiring,
                    lateAcquiring, liveCameraTracks >>
    /\ UNCHANGED << extractVars, historyVars, savedReceipts, user, receiptData, isLoading,
                    error, showManualEntry, formData, manual, store, nextId, inflight,
                    imagePending, lastCall, recorderVars, analyticsVars, syncVars >>

\* The callback of toBlob calls onCapture(file): setShowCamera(false), then
\* handleImageSelect(file) up to its await.
onCapture ==
    /\ capturePending > 0
    /\ capturePending' = capturePending - 1
    /\ CameraUnmounts
    /\ isLoading' = TRUE
    /\ error' = NoError
    /\ receiptData' = << >>
    /\ imagePending' = imagePending + 1
    /\ formData' = ResultDisplayState(user, << >>, TRUE)
    /\ UNCHANGED << extractVars, historyVars, savedReceipts, user, showManualEntry, manual,
                    store, nextId, inflight, lastCall, recorderVars, analyticsVars,
                    syncVars >>

\* The camera view with a signed-in user.
SignedIn ==
    /\ user \in Users /\ receiptData = << >> /\ isLoading = FALSE /\ error = NoError
    /\ showManualEntry = FALSE /\ formData = << >> /\ manual = << >>
    /\ store = StoreOf(<< >>) /\ nextId = 1
    /\ inflight = << >> /\ imagePending = 0 /\ lastCall = NoCall
InitCamera ==
    /\ ExtractIdle /\ HistoryIdle /\ savedReceipts = << >> /\ SignedIn /\ PanelsIdle
NextCamera ==
    \/ openCamera
    \/ cameraGranted
    \/ cameraDenied
    \/ lateCameraGranted
    \/ lateCameraDenied
    \/ handleCanPlay
    \/ closeCamera
    \/ handleCapture
    \/ onCapture
    \/ \E r \in AppResponses : ImageAnalyzed(r)
    \/ ImageAnalysisFailed
    \/ handleDiscard
SpecCamera == InitCamera /\ [][NextCamera]_vars

(***************************************************************************)
(* ManualEntry's recorder and the microphone of the device.                *)
(***************************************************************************)
MicrophoneDenied == "Microphone access was denied. Please enable it in your browser settings."
NotUnderstood == "Sorry, I couldn't understand that. Please try again or enter manually."

\* handleRecordClick while not recording: startRecording up to the await of
\* getUserMedia.  The button is disabled while a recording is processed.
startRecording ==
    /\ showManualEntry /\ ~ isRecording /\ ~ isProcessing
    /\ micAcquiring + lateMicAcquiring + liveMicTracks < MaxStreams
    /\ entryError' = NoMessage
    /\ micAcquiring' = micAcquiring + 1
    /\ UNCHANGED << isRecording, isProcessing, lateMicAcquiring, liveMicTracks, voicePending,
                    lateVoicePending >>
    /\ UNCHANGED << extractVars, historyVars, savedReceipts, user, receiptData, isLoading,
                    error, showManualEntry, formData, manual, store, nextId, inflight,
                    imagePending, lastCall, cameraVars, analyticsVars, syncVars >>

\* startRecording after getUserMedia has resolved: a new recorder on the new
\* stream replaces the one in mediaRecorderRef and is started.
micGranted ==
    /\ micAcquiring > 0
    /\ micAcquiring' = micAcquiring - 1
    /\ liveMicTracks' = liveMicTracks + 1
    /\ isRecording' = TRUE
    /\ UNCHANGED << isProcessing, entryError, lateMicAcquiring, voicePending,
                    lateVoicePending >>
    /\ UNCHANGED << extractVars, historyVars, savedReceipts, user, receiptData, isLoading,
                    error, showManualEntry, formData, manual, store, nextId, inflight,
                    imagePending, lastCall, cameraVars, analyticsVars, syncVars >>

\* startRecording after getUserMedia has rejected.
micDenied ==
    /\ micAcquiring > 0
    /\ micAcquiring' = micAcquiring - 1
    /\ entryError' = MicrophoneDenied
    /\ UNCHANGED << isRecording, isProcessing, lateMicAcquiring, liveMicTracks, voicePending,
                    lateVoicePending >>
    /\ UNCHANGED << extractVars, historyVars, savedReceipts, user, receiptData, isLoading,
                    error, showManualEntry, formData, manual, store, nextId, inflight,
                    imagePending, lastCall, cameraVars, analyticsVars, syncVars >>

\* getUserMedia resolves for an entry view that was closed meanwhile: the
\* recorder is created and started all the same.
lateMicGranted ==
    /\ lateMicAcquiring > 0
    /\ lateMicAcquiring' = lateMicAcquiring - 1
    /\ liveMicTracks' = liveMicTracks + 1
    /\ UNCHANGED << isRecording, isProcessing, entryError, micAcquiring, voicePending,
                    lateVoicePending >>
    /\ UNCHANGED << extractVars, historyVars, savedReceipts, user, receiptData, isLoading,
                    error, showManualEntry, formData, manual, store, nextId, inflight,
                    imagePending, lastCall, cameraVars, analyticsVars, syncVars >>

\* getUserMedia rejects for an entry view that was closed meanwhile.
lateMicDenied ==
    /\ lateMicAcquiring > 0
    /\ lateMicAcquiring' = lateMicAcquiring - 1
    /\ UNCHANGED << isRecording, isProcessing, entryError, micAcquiring, liveMicTracks,
                    voicePending, lateVoicePending >>
    /\ UNCHANGED << extractVars, historyVars, savedReceipts, user, receiptData, isLoading,
                    error, showManualEntry, formData, manual, store, nextId, inflight,
                    imagePending, lastCall, cameraVars, analyticsVars, syncVars >>

\* handleRecordClick while recording: stopRecording stops the recorder in
\* mediaRecorderRef and the tracks of its stream; the recorder's onstop
\* handler then runs up to the await of analyzeTransactionFromVoice.
stopRecording ==
    /\ showManualEntry /\ isRecording /\ ~ isProcessing
    /\ voicePending + lateVoicePending < MaxPending
    /\ liveMicTracks' = liveMicTracks - 1
    /\ isRecording' = FALSE
    /\ isProcessing' = TRUE
    /\ voicePending' = voicePending + 1
    /\ UNCHANGED << entryError, micAcquiring, lateMicAcquiring, lateVoicePending >>
    /\ UNCHANGED << extractVars, historyVars, savedReceipts, user, receiptData, isLoading,
                    error, showManualEntry, formData, manual, store, nextId, inflight,
                    imagePending, lastCall, cameraVars, analyticsVars, syncVars >>

\* The onstop handler after analyzeTransactionFromVoice has returned the
\* validated reply r.
voiceResolved(r) ==
    /\ voicePending > 0
    /\ voicePending' = voicePending - 1
    /\ manual' = FieldsAfterVoice(r)
    /\ isProcessing' = FALSE
    /\ UNCHANGED << isRecording, entryError, micAcquiring, lateMicAcquiring, liveMicTracks,
                    lateVoicePending >>
    /\ UNCHANGED << extractVars, historyVars, savedReceipts, user, receiptData, isLoading,
                    error, showManualEntry, formData, store, nextId, inflight,
                    imagePending, lastCall, cameraVars, analyticsVars, syncVars >>

\* The onstop handler after analyzeTransactionFromVoice has thrown.
voiceRejected ==
    /\ voicePending > 0
    /\ voicePending' = voicePending - 1
    /\ entryError' = NotUnderstood
    /\ isProcessing' = FALSE
    /\ UNCHANGED << isRecording, micAcquiring, lateMicAcquiring, liveMicTracks,
                    lateVoicePending >>
    /\ UNCHANGED << extractVars, historyVars, savedReceipts, user, receiptData, isLoading,
                    error, showManualEntry, formData, manual, store, nextId, inflight,
                    imagePending, lastCall, cameraVars, analyticsVars, syncVars >>

\* analyzeTransactionFromVoice settles for an entry view that was closed
\* meanwhile: every setter it calls does nothing.
lateVoiceSettled ==
    /\ lateVoicePending > 0
    /\ lateVoicePending' = lateVoicePending - 1
    /\ UNCHANGED << isRecording, isProcessing, entryError, micAcquiring, lateMicAcquiring,
                    liveMicTracks, voicePending >>
    /\ UNCHANGED << extractVars, historyVars, savedReceipts, user, receiptData, isLoading,
                    error, showManualEntry, formData, manual, store, nextId, inflight,
                    imagePending, lastCall, cameraVars, analyticsVars, syncVars >>

InitVoice ==
    /\ ExtractIdle /\ HistoryIdle /\ savedReceipts = << >> /\ PanelsIdle
    /\ SignedIn
NextVoice ==
    \/ openManualEntry
    \/ onClose
    \/ startRecording
    \/ micGranted
    \/ micDenied
    \/ lateMicGranted
    \/ lateMicDenied
    \/ stopRecording
    \/ \E r \in VoiceResponses : voiceResolved(r)
    \/ voiceRejected
    \/ lateVoiceSettled
    \/ handleSubmit
    \/ \E i \in 1..Len(inflight) : addDocResolved(i)
    \/ \E i \in 1..Len(inflight) : addDocRejected(i)
SpecVoice == InitVoice /\ [][NextVoice]_vars

(***************************************************************************)
(* AIAnalytics.                                                            *)
(***************************************************************************)
InsightsFailed == "Failed to get insights. Please try again."
LeaksFailed == "Failed to analyze: "

\* String.prototype.trim on the texts of the model: spaces at both ends go.
RECURSIVE trimStart(_)
trimStart(cs) == IF cs # << >> /\ Head(cs) = " " THEN trimStart(Tail(cs)) ELSE cs
RECURSIVE trimEnd(_)
trimEnd(cs) ==
    IF cs # << >> /\ cs[Len(cs)] = " " THEN trimEnd(SubSeq(cs, 1, Len(cs) - 1)) ELSE cs
trim(cs) == trimEnd(trimStart(cs))

\* The controls of the panel are rendered for a signed-in user with at least
\* one receipt, and can be reached while no overlay covers the page.
PanelReachable ==
    user # NoUser /\ Len(savedReceipts) > 0 /\ ~ showManualEntry /\ ~ showCamera

\* The textarea's onChange, and handlePromptClick.
setQuery(q) ==
    /\ PanelReachable
    /\ q # query
    /\ query' = q
    /\ UNCHANGED << analysis, aiLoading, isAnalyzingLeaks, aiError, insightsPending,
                    leaksPending >>
    /\ UNCHANGED << extractVars, historyVars, savedReceipts, user, receiptData, isLoading,
                    error, showManualEntry, formData, manual, store, nextId, inflight,
                    imagePending, lastCall, cameraVars, recorderVars, syncVars >>

\* handleGetInsights up to the await of getSpendingAnalysis.
handleGetInsights ==
    IF trim(query) = << >> \/ Len(savedReceipts) = 0
    THEN UNCHANGED vars
    ELSE /\ insightsPending < MaxPending
         /\ aiLoading' = TRUE
         /\ aiError' = NoMessage
         /\ analysis' = ""
         /\ insightsPending' = insightsPending + 1
         /\ UNCHANGED << query, isAnalyzingLeaks, leaksPending >>
         /\ UNCHANGED << extractVars, historyVars, savedReceipts, user, receiptData,
                         isLoading, error, showManualEntry, formData, manual, store, nextId,
                         inflight, imagePending, lastCall, cameraVars, recorderVars,
                         syncVars >>

\* The Ask button, disabled while loading or while the question is blank.
askClicked ==
    /\ PanelReachable
    /\ ~ (aiLoading \/ trim(query) = << >>)
    /\ handleGetInsights

\* Enter without Shift in the textarea.
enterPressed ==
    /\ PanelReachable
    /\ handleGetInsights

\* handleGetInsights after getSpendingAnalysis has returned text.
insightsResolved(text) ==
    /\ insightsPending > 0
    /\ insightsPending' = insightsPending - 1
    /\ analysis' = text
    /\ aiLoading' = FALSE
    /\ UNCHANGED << query, isAnalyzingLeaks, aiError, leaksPending >>
    /\ UNCHANGED << extractVars, historyVars, savedReceipts, user, receiptData, isLoading,
                    error, showManualEntry, formData, manual, store, nextId, inflight,
                    imagePending, lastCall, cameraVars, recorderVars, syncVars >>

\* handleGetInsights without its finally block: the failure sets the message
\* and leaves the panel loading.
insightsRejected_NoFinally ==
    /\ insightsPending > 0
    /\ insightsPending' = insightsPending - 1
    /\ aiError' = InsightsFailed
    /\ UNCHANGED << query, analysis, aiLoading, isAnalyzingLeaks, leaksPending >>
    /\ UNCHANGED << extractVars, historyVars, savedReceipts, user, receiptData, isLoading,
                    error, showManualEntry, formData, manual, store, nextId, inflight,
                    imagePending, lastCall, cameraVars, recorderVars, syncVars >>

\* handleGetInsights after getSpendingAnalysis has thrown.
insightsRejected ==
    /\ insightsPending > 0
    /\ insightsPending' = insightsPending - 1
    /\ aiError' = InsightsFailed
    /\ aiLoading' = FALSE
    /\ UNCHANGED << query, analysis, isAnalyzingLeaks, leaksPending >>
    /\ UNCHANGED << extractVars, historyVars, savedReceipts, user, receiptData, isLoading,
                    error, showManualEntry, formData, manual, store, nextId, inflight,
                    imagePending, lastCall, cameraVars, recorderVars, syncVars >>

\* The Find Cash Leaks button, disabled while an analysis runs:
\* handleFindCashLeaks up to the await of findCashLeaks.
handleFindCashLeaks ==
    /\ PanelReachable
    /\ ~ isAnalyzingLeaks
    /\ leaksPending < MaxPending
    /\ isAnalyzingLeaks' = TRUE
    /\ aiError' = NoMessage
    /\ analysis' = ""
    /\ leaksPending' = leaksPending + 1
    /\ UNCHANGED << query, aiLoading, insightsPending >>
    /\ UNCHANGED << extractVars, historyVars, savedReceipts, user, receiptData, isLoading,
                    error, showManualEntry, formData, manual, store, nextId, inflight,
                    imagePending, lastCall, cameraVars, recorderVars, syncVars >>

\* handleFindCashLeaks after findCashLeaks has returned text.
leaksResolved(text) ==
    /\ leaksPending > 0
    /\ leaksPending' = leaksPending - 1
    /\ analysis' = text
    /\ isAnalyzingLeaks' = FALSE
    /\ UNCHANGED << query, aiLoading, aiError, insightsPending >>
    /\ UNCHANGED << extractVars, historyVars, savedReceipts, user, receiptData, isLoading,
                    error, showManualEntry, formData, manual, store, nextId, inflight,
                    imagePending, lastCall, cameraVars, recorderVars, syncVars >>

\* handleFindCashLeaks after findCashLeaks has thrown an Error.
leaksRejected ==
    /\ leaksPending > 0
    /\ leaksPending' = leaksPending - 1
    /\ aiError' = LeaksFailed
    /\ isAnalyzingLeaks' = FALSE
    /\ UNCHANGED << query, analysis, aiLoading, insightsPending >>
    /\ UNCHANGED << extractVars, historyVars, savedReceipts, user, receiptData, isLoading,
                    error, showManualEntry, formData, manual, store, nextId, inflight,
                    imagePending, lastCall, cameraVars, recorderVars, syncVars >>

\* What the user types, and what the model answers.
Question == << "H", "o", "w", " ", "m", "u", "c", "h", "?" >>
Queries == { << >>, << " " >>, Question }
Answers == { "first answer", "second answer" }
LeakReports == { "report" }

\* A signed-in user whose one stored receipt has been delivered.
StoredReceipt ==
    SavedReceipt(1, [ transaction_name |-> Str(Coffee), total_amount |-> Num(120),
                      transaction_date |-> Str(IsoText(2025, 3, 5)), category |-> Str(Rent) ])
SignedInWithReceipt ==
    /\ ExtractIdle
    /\ tz = 0 /\ now = Time(DaysFromCivil(2025, 3, 6), 0)
    /\ activeFilter = "All" /\ periodTitle = AllTransactions
    /\ weekRange = NoRange /\ csvFile = NoFile
    /\ savedReceipts = << StoredReceipt >>
    /\ filteredData = FilteredData(savedReceipts, activeFilter, now, tz)
    /\ user \in Users /\ receiptData = << >> /\ isLoading = FALSE /\ error = NoError
    /\ showManualEntry = FALSE /\ formData = << >> /\ manual = << >>
    /\ store = StoreOf(<< StoredReceipt >>) /\ nextId = 2
    /\ inflight = << >> /\ imagePending = 0 /\ lastCall = NoCall
    /\ PanelsIdle

(***************************************************************************)
(* TransactionHistory: the sync button.  Time passes in steps of TickMs;   *)
(* a timer runs when its remaining time is used up.                        *)
(***************************************************************************)
SyncRevertDelay == 2500
TicksPerDelay == 2
TickMs == SyncRevertDelay \div TicksPerDelay

\* The body of the POST: JSON.stringify({ receipts: receipts }), with the
\* receipts prop of the history; the list the view shows is filteredData.
SyncBody_Filtered(receipts, filtered) == [receipts |-> filtered]
SyncBody(receipts, filtered) == [receipts |-> receipts]

\* The sync button, disabled unless the status is 'idle': handleSync up to
\* the await of fetch.
handleSync ==
    /\ PanelReachable
    /\ syncStatus = "idle"
    /\ fetchPending + Len(timers) < MaxPending
    /\ syncStatus' = "syncing"
    /\ fetchPending' = fetchPending + 1
    /\ alerted' = FALSE
    /\ lastPost' = << SyncBody(savedReceipts, filteredData) >>
    /\ UNCHANGED << timers, sinceSynced >>
    /\ UNCHANGED << extractVars, historyVars, savedReceipts, user, receiptData, isLoading,
                    error, showManualEntry, formData, manual, store, nextId, inflight,
                    imagePending, lastCall, cameraVars, recorderVars, analyticsVars >>

\* handleSync after fetch has resolved; the finally block sets the timer.
fetchResolved ==
    /\ fetchPending > 0
    /\ fetchPending' = fetchPending - 1
    /\ syncStatus' = "synced"
    /\ sinceSynced' = 0
    /\ timers' = Append(timers, SyncRevertDelay)
    /\ alerted' = FALSE
    /\ lastPost' = << >>
    /\ UNCHANGED << extractVars, historyVars, savedReceipts, user, receiptData, isLoading,
                    error, showManualEntry, formData, manual, store, nextId, inflight,
                    imagePending, lastCall, cameraVars, recorderVars, analyticsVars >>

\* handleSync after fetch has rejected: the alert, 'idle', and the finally
\* block sets the timer all the same.
fetchRejected ==
    /\ fetchPending > 0
    /\ fetchPending' = fetchPending - 1
    /\ alerted' = TRUE
    /\ lastPost' = << >>
    /\ syncStatus' = "idle"
    /\ sinceSynced' = 0
    /\ timers' = Append(timers, SyncRevertDelay)
    /\ UNCHANGED << extractVars, historyVars, savedReceipts, user, receiptData, isLoading,
                    error, showManualEntry, formData, manual, store, nextId, inflight,
                    imagePending, lastCall, cameraVars, recorderVars, analyticsVars >>

\* The callback of setTimeout.
timerFired ==
    /\ timers # << >> /\ Head(timers) <= 0
    /\ timers' = Tail(timers)
    /\ syncStatus' = "idle"
    /\ sinceSynced' = 0
    /\ alerted' = FALSE
    /\ lastPost' = << >>
    /\ UNCHANGED fetchPending
    /\ UNCHANGED << extractVars, historyVars, savedReceipts, user, receiptData, isLoading,
                    error, showManualEntry, formData, manual, store, nextId, inflight,
                    imagePending, lastCall, cameraVars, recorderVars, analyticsVars >>

\* Time passes while no timer is due.
tick ==
    /\ timers # << >> /\ Head(timers) > 0
    /\ timers' = [i \in 1..Len(timers) |-> timers[i] - TickMs]
    /\ sinceSynced' = IF syncStatus # "synced" THEN sinceSynced
                      ELSE IF sinceSynced + TickMs > SyncRevertDelay THEN SyncRevertDelay
                      ELSE sinceSynced + TickMs
    /\ alerted' = FALSE
    /\ lastPost' = << >>
    /\ UNCHANGED << syncStatus, fetchPending >>
    /\ UNCHANGED << extractVars, historyVars, savedReceipts, user, receiptData, isLoading,
                    error, showManualEntry, formData, manual, store, nextId, inflight,
                    imagePending, lastCall, cameraVars, recorderVars, analyticsVars >>

(***************************************************************************)
(* Specification of the two panels below the upload card.                  *)
(***************************************************************************)
InitPanels == SignedInWithReceipt
NextPanels ==
    \/ \E q \in Queries : setQuery(q)
    \/ askClicked
    \/ enterPressed
    \/ \E text \in Answers : insightsResolved(text)
    \/ insightsRejected
    \/ handleFindCashLeaks
    \/ \E text \in LeakReports : leaksResolved(text)
    \/ leaksRejected
    \/ handleSync
    \/ fetchResolved
    \/ fetchRejected
    \/ timerFired
    \/ tick
SpecPanels == InitPanels /\ [][NextPanels]_vars

(***************************************************************************)
(* Specification of the requests of the page, with fairness: a request     *)
(* that is pending is eventually answered or fails.  It starts from two    *)
(* states of a signed-in page: nothing stored yet, where the upload card   *)
(* offers the image and the entry view and the two panels show no control; *)
(* and one receipt stored with a candidate under review, where the card    *)
(* shows the review form and the panels are in use.  At most one image     *)
(* call and one voice call of the mounted entry view are pending at a      *)
(* time, so weak fairness of one answer or the failure says that the call  *)
(* settles.                                                                *)
(***************************************************************************)
UndatedReply == Reply(NULL, Str(<< "1", "2", "0" >>), NULL, NULL)
DatedVoiceReply == Reply(Str(Coffee), Num(120), Str(Today), Str(Rent))

NothingStored ==
    /\ ExtractIdle /\ HistoryIdle /\ savedReceipts = << >> /\ SignedIn /\ PanelsIdle
UnderReview ==
    /\ ExtractIdle
    /\ tz = 0 /\ now = Time(DaysFromCivil(2025, 3, 6), 0)
    /\ activeFilter = "All" /\ periodTitle = AllTransactions
    /\ weekRange = NoRange /\ csvFile = NoFile
    /\ savedReceipts = << StoredReceipt >>
    /\ filteredData = FilteredData(savedReceipts, activeFilter, now, tz)
    /\ user \in Users /\ isLoading = FALSE /\ error = NoError
    /\ receiptData = << analyzeReceipt(UndatedReply) >> /\ formData = receiptData
    /\ showManualEntry = FALSE /\ manual = << >>
    /\ store = StoreOf(<< StoredReceipt >>) /\ nextId = 2
    /\ inflight = << >> /\ imagePending = 0 /\ lastCall = NoCall
    /\ PanelsIdle

InitBusy == NothingStored \/ UnderReview
NextBusy ==
    \/ handleImageSelect
    \/ ImageAnalyzed(UndatedReply)
    \/ ImageAnalysisFailed
    \/ openManualEntry
    \/ onClose
    \/ startRecording
    \/ micGranted
    \/ stopRecording
    \/ voiceResolved(DatedVoiceReply)
    \/ voiceRejected
    \/ lateVoiceSettled
    \/ setQuery(Question)
    \/ askClicked
    \/ enterPressed
    \/ \E text \in Answers : insightsResolved(text)
    \/ insightsRejected
    \/ handleFindCashLeaks
    \/ \E text \in LeakReports : leaksResolved(text)
    \/ leaksRejected
    \/ handleSync
    \/ fetchResolved
    \/ fetchRejected
    \/ timerFired
    \/ tick
SpecBusy ==
    /\ InitBusy /\ [][NextBusy]_vars
    /\ WF_vars(ImageAnalyzed(UndatedReply) \/ ImageAnalysisFailed)
    /\ WF_vars(voiceResolved(DatedVoiceReply) \/ voiceRejected)
    /\ WF_vars(lateVoiceSettled)
    /\ WF_vars((\E text \in Answers : insightsResolved(text)) \/ insightsRejected)
    /\ WF_vars((\E text \in LeakReports : leaksResolved(text)) \/ leaksRejected)
    /\ WF_vars(fetchResolved \/ fetchRejected)

(***************************************************************************)
(* Properties of saving and deleting (Spec).                               *)
(***************************************************************************)
\* A field is missing when it is absent, null or the empty text.
Missing(v) == v.t \in { "null", "undefined" } \/ v = Str(<< >>)
AnyMissing(data) ==
    \/ Missing(data.transaction_name)
    \/ Missing(data.total_amount)
    \/ Missing(data.transaction_date)
    \/ Missing(data.category)

\* C2: called by a signed-in user, handleSaveReceipt answers a Candidate
\* Record in which a field is missing with the incomplete-data error and no
\* store call, and any other with exactly one create carrying the four fields.
C2_SaveRejectsIncomplete ==
    (lastCall.op = "save" /\ lastCall.user # NoUser) =>
        IF AnyMissing(lastCall.data)
        THEN /\ lastCall.issued = << >>
             /\ lastCall.error = IncompleteData
        ELSE /\ lastCall.issued = << AddDocCall(lastCall.user, lastCall.data) >>
             /\ lastCall.data.total_amount.t = "number"

\* A record whose amount alone was cleared in the review form has been
\* rejected.
C2_Witness ==
    /\ lastCall.op = "save" /\ lastCall.user # NoUser
    /\ lastCall.data.total_amount = NULL
    /\ ~ Missing(lastCall.data.transaction_name)
    /\ ~ Missing(lastCall.data.transaction_date)
    /\ ~ Missing(lastCall.data.category)
    /\ lastCall.issued = << >>
    /\ lastCall.error = IncompleteData

\* C3: every record in the store, and every record on its way to it, has its
\* four fields and a category of the enumeration, whichever form saved it.
C3_StoredRecordsComplete ==
    /\ \A u \in Users : \A i \in 1..Len(store[u]) :
          ~ AnyMissing(store[u][i]) /\ IsEnumerated(store[u][i].category)
    /\ \A i \in 1..Len(inflight) :
          inflight[i].op = "addDoc" =>
              ~ AnyMissing(inflight[i].data) /\ IsEnumerated(inflight[i].data.category)

\* A record whose category the model gave outside the enumeration has been
\* reviewed, saved and stored.
C3_Witness ==
    \E u \in Users : \E i \in 1..Len(store[u]) :
        /\ store[u][i].category = Str(Other)
        /\ store[u][i].transaction_name = Str(Coffee)
        /\ store[u][i].total_amount = Num(120)

DocsOf(q) == { q[i] : i \in 1..Len(q) }
IdsOf(q) == { q[i].id : i \in 1..Len(q) }

C15_StaleResponsesDiscarded ==
    [][ (imagePending' < imagePending /\ user = NoUser) =>
            (receiptData' = receiptData /\ formData' = formData) ]_vars

\* C18: a step of handleSaveReceipt or handleDeleteReceipt, before or after
\* its store call settles, leaves the record set as it is; the set changes
\* only when it is cleared at sign-out or replaced by a notification.
C18_HandlersLeaveRecordSet ==
    [][ /\ (lastCall'.op \in { "save", "delete" } \/ inflight' # inflight) =>
               savedReceipts' = savedReceipts
        /\ savedReceipts' # savedReceipts =>
               \/ (user' = NoUser /\ savedReceipts' = << >>)
               \/ (user' = user /\ store' = store /\ inflight' = inflight
                   /\ DocsOf(savedReceipts') = DocsOf(store[user]))
      ]_vars

\* A delete has been issued and its record is still in the set.
C18_Witness ==
    /\ lastCall.op = "delete" /\ lastCall.issued # << >>
    /\ lastCall.id \in IdsOf(savedReceipts)

(***************************************************************************)
(* Properties of the service calls (SpecExtract).                          *)
(***************************************************************************)

\* C19: a voice reply whose transaction_date is absent, null or empty comes
\* back dated with the `today` of the same call; a reply that carries a date
\* keeps it.
C19_VoiceDateDefaultsToToday ==
    (extractKind = "voice" /\ outcome = "returned") =>
        IF Missing(response.transaction_date)
        THEN validatedData.transaction_date = Str(today)
        ELSE validatedData.transaction_date = response.transaction_date

\* A voice reply without a date has been validated on New Year's Eve.
C19_Witness ==
    /\ extractKind = "voice" /\ outcome = "returned"
    /\ response.transaction_date = NULL
    /\ today = IsoText(2025, 12, 31)
    /\ validatedData.transaction_date = Str(IsoText(2025, 12, 31))

\* A record every field of which went through the validation block.
FullyValidated(data) ==
    /\ data.transaction_name # UNDEF
    /\ data.total_amount.t \in { "number", "null" }
    /\ data.transaction_date # UNDEF
    /\ IsEnumerated(data.category)

\* C20: a call of one of the four service functions issues at most one
\* request; after a transport or parse failure it raises and hands no record
\* or text to the caller; otherwise it returns, and a returned record is
\* fully validated.
C20_OneRequestNoPartialResult ==
    /\ requests <= 1
    /\ extractKind # "none" => outcome \in { "returned", "raised" }
    /\ (outcome = "raised") => (validatedData = NoData /\ resultText = NoText /\ requests = 1)
    /\ (extractKind \in { "image", "voice" } /\ replyKind \in { "rejected", "malformed", "null" })
           => outcome = "raised"
    /\ (extractKind \in { "insights", "leaks" } /\ replyKind = "rejected" /\ requests = 1)
           => outcome = "raised"
    /\ (extractKind \in { "image", "voice" } /\ outcome = "returned")
           => FullyValidated(validatedData)
    /\ (extractKind \in { "insights", "leaks" } /\ outcome = "returned")
           => (validatedData = NoData /\ resultText # NoText)

\* A call whose reply could not be parsed has raised after its one request.
C20_Witness ==
    /\ extractKind = "image" /\ replyKind = "malformed"
    /\ outcome = "raised" /\ requests = 1 /\ validatedData = NoData

(***************************************************************************)
(* Properties of the camera view (SpecCamera).                             *)
(***************************************************************************)

\* C13: whenever the camera view is not mounted, no camera stream has a live
\* track, whichever way the view was left and whenever the stream arrived.
C13_NoLiveCameraAfterClose ==
    ~ showCamera => liveCameraTracks = 0

(***************************************************************************)
(* Properties of the manual / voice entry view (SpecVoice).                *)
(***************************************************************************)

\* C14: whenever the entry view is not mounted, no microphone stream has a
\* live track, whichever way the view was left.
C14_NoLiveMicrophoneAfterClose ==
    ~ showManualEntry => liveMicTracks = 0

(***************************************************************************)
(* Properties of the analysis panel (SpecPanels).                          *)
(***************************************************************************)

\* C12: at most one request of each kind is in flight: one image
\* extraction, one question, one leak analysis.
C12_OneRequestPerKind ==
    imagePending <= 1 /\ insightsPending <= 1 /\ leaksPending <= 1

(***************************************************************************)
(* Properties of the sync button (SpecPanels).                             *)
(***************************************************************************)

\* C16: the status only moves idle -> syncing, syncing -> synced,
\* synced -> idle once the delay has passed since it became synced, and
\* syncing -> idle with the alert of a failed push.
C16_SyncStatusTransitions ==
    [][ syncStatus' # syncStatus =>
            \/ (syncStatus = "idle" /\ syncStatus' = "syncing")
            \/ (syncStatus = "syncing" /\ syncStatus' = "synced")
            \/ (syncStatus = "synced" /\ syncStatus' = "idle"
                /\ sinceSynced >= SyncRevertDelay)
            \/ (syncStatus = "syncing" /\ syncStatus' = "idle" /\ alerted') ]_vars

(***************************************************************************)
(* Properties of the busy flags (SpecBusy).                                *)
(***************************************************************************)

SignedInEmpty ==
    /\ HistoryIdle /\ savedReceipts = << >> /\ SignedIn /\ PanelsIdle

InitLeaks ==
    /\ replyKind \in { "object", "rejected" } /\ response = NoResponse
    /\ today = Today /\ validatedData = NoData /\ extractKind = "none"
    /\ requests = 0 /\ outcome = "none" /\ resultText = NoText
    /\ \/ SignedInEmpty
       \/ SignedInWithReceipt
NextLeaks ==
    \/ FindCashLeaks
    \/ handleFindCashLeaks
    \/ \E text \in LeakReports : leaksResolved(text)
    \/ leaksRejected
    \/ onSnapshot
    \/ \E id \in 1..MaxDocs : handleDeleteReceipt(id)
    \/ \E i \in 1..Len(inflight) : deleteDocResolved(i)
    \/ \E i \in 1..Len(inflight) : deleteDocRejected(i)
SpecLeaks == InitLeaks /\ [][NextLeaks]_vars

\* C21: findCashLeaks called with an empty list issues no request and returns
\* the canned message, and no step taken while the list of the page is empty
\* starts a leak analysis.
C21_EmptyListNoRequest ==
    [][ /\ (extractKind = "none" /\ extractKind' = "leaks" /\ Len(savedReceipts) = 0)
            => (requests' = requests /\ outcome' = "returned"
                /\ resultText' = NoTransactionsText)
        /\ Len(savedReceipts) = 0 => leaksPending' <= leaksPending ]_vars

\* findCashLeaks has returned the canned message for the empty list of a
\* signed-in page, with no request issued and no analysis pending.
C21_Witness ==
    /\ extractKind = "leaks" /\ Len(savedReceipts) = 0 /\ requests = 0
    /\ resultText = NoTransactionsText /\ user # NoUser /\ leaksPending = 0

(***************************************************************************)
(* Properties of the category lists (SpecExtract).                         *)
(***************************************************************************)

\* C22: the list that validates an extraction and the option lists of the
\* manual-entry form, the review form and the edit form have the same
\* members, so the category of every extracted record is an option of every
\* form.
C22_SameCategoriesEverywhere ==
    (extractKind \in { "image", "voice" } /\ outcome = "returned") =>
        /\ Options(ManualEntryCategories) = Options(categories)
        /\ Options(ResultDisplayCategories) = Options(categories)
        /\ Options(EditTransactionCategories) = Options(categories)
        /\ \A list \in { ManualEntryCategories, ResultDisplayCategories,
                          EditTransactionCategories } :
               validatedData.category.s \in Options(list)

(***************************************************************************)
(* Specification of the summarized export: receipts of two categories,     *)
(* dated today and earlier in the quarter, summarized for every period and *)
(* downloaded.                                                             *)
(***************************************************************************)
SummaryPool ==
    [ transaction_name : { Str(Coffee) },
      total_amount     : { Num(15), Num(120) },
      transaction_date : { Str(IsoText(2025, 3, 6)), Str(IsoText(2025, 1, 15)) },
      category         : { Str(FoodAndDrink), Str(Rent) } ]

InitSummaryCsv ==
    /\ ExtractIdle /\ AppIdle
    /\ tz = 8 * MsPerHour /\ now = FromLocal(DaysFromCivil(2025, 3, 6), 12 * MsPerHour, tz)
    /\ savedReceipts \in Snapshots(SummaryPool, MaxSummaryRows)
    /\ activeFilter = "All" /\ filteredData = savedReceipts /\ periodTitle = AllTransactions
    /\ weekRange = NoRange /\ csvFile = NoFile
NextSummaryCsv ==
    \/ handleDownloadCsv
    \/ \E f \in FilterTypes : setActiveFilter(f)
SpecSummaryCsv == InitSummaryCsv /\ [][NextSummaryCsv]_vars

\* The categories of a list of receipts, as the summary names them, and the
\* sum of the amounts of one category.
CategoriesOf(rs) == { OrElse(rs[i].category, Str(Uncategorized)).s : i \in 1..Len(rs) }
CategoryTotal(rs, c) ==
    LET Is(r) == OrElse(r.category, Str(Uncategorized)).s = c
    IN  SumAmounts(SelectSeq(rs, Is))

MinusFive == << "-", "5" >>
SignedAmounts == { << "1", "2", "0" >>, MinusFive }
NegativeReply == Reply(Str(Coffee), Num(0 - 5), Str(Today), Str(Other))

InitAmounts == NothingStored
NextAmounts ==
    \/ openManualEntry
    \/ onClose
    \/ setManualField("transactionName", Coffee)
    \/ \E v \in SignedAmounts : setManualField("totalAmount", v)
    \/ handleSubmit
    \/ handleImageSelect
    \/ ImageAnalyzed(NegativeReply)
    \/ \E v \in SignedAmounts : handleAmountChange(v)
    \/ handleSave
    \/ handleDiscard
    \/ \E i \in 1..Len(inflight) : addDocResolved(i)
    \/ \E i \in 1..Len(inflight) : addDocRejected(i)
    \/ onSnapshot
SpecAmounts == InitAmounts /\ [][NextAmounts]_vars

\* C24: no create request carries a negative amount and no stored record has
\* one.
C24_StoredAmountsNonNegative ==
    /\ \A i \in 1..Len(inflight) :
          inflight[i].op = "addDoc" => inflight[i].data.total_amount.n >= 0
    /\ \A u \in Users : \A i \in 1..Len(store[u]) : store[u][i].total_amount.n >= 0

(***************************************************************************)
(* Specification of the accounts: two users sign in and out of the page,   *)
(* or one takes the place of the other, while records are created, listed  *)
(* and deleted.                                                            *)
(***************************************************************************)
InitAccounts == ExtractIdle /\ HistoryIdle /\ savedReceipts = << >> /\ AppIdle
NextAccounts ==
    \/ \E u \in Accounts \cup { NoUser } : onAuthStateChanged(u)
    \/ onSnapshot
    \/ openManualEntry
    \/ onClose
    \/ setManualField("transactionName", Coffee)
    \/ setManualField("totalAmount", << "1", "2", "0" >>)
    \/ handleSubmit
    \/ \E i \in 1..Len(inflight) : addDocResolved(i)
    \/ \E i \in 1..Len(inflight) : addDocRejected(i)
    \/ \E id \in 1..MaxDocs : handleDeleteReceipt(id)
    \/ \E i \in 1..Len(inflight) : deleteDocResolved(i)
    \/ \E i \in 1..Len(inflight) : deleteDocRejected(i)
SpecAccounts == InitAccounts /\ [][NextAccounts]_vars

\* C25: the record set is empty while nobody is signed in and holds no
\* record of the collection of a user other than the one signed in, and a
\* save or delete issues its request under the user signed in at that
\* moment.
C25_RecordsOfSignedInUserOnly ==
    /\ user = NoUser => savedReceipts = << >>
    /\ \A i \in 1..Len(savedReceipts) : \A u \in Accounts \ { user } :
          \A j \in 1..Len(store[u]) : store[u][j].id # savedReceipts[i].id
    /\ \A k \in 1..Len(lastCall.issued) :
          lastCall.issued[k].user = user /\ user # NoUser

(***************************************************************************)
(* Specification of the sync button under the period filters: the user     *)
(* picks periods and pushes the records while earlier pushes settle.       *)
(***************************************************************************)
InitSync == SignedInWithReceipt
NextSync ==
    \/ \E f \in FilterTypes : setActiveFilter(f)
    \/ handleSync
    \/ fetchResolved
    \/ fetchRejected
    \/ timerFired
    \/ tick
SpecSync == InitSync /\ [][NextSync]_vars

\* C26: a press of the sync button issues one request, whose body is the
\* whole record set whatever period is shown; requests are issued by a press
\* of the button only, and a request that settles, either way, is followed
\* by no other.
C26_OnePostOfAllRecords ==
    [][ /\ (syncStatus = "idle" /\ syncStatus' = "syncing")
            => fetchPending' = fetchPending + 1
        /\ fetchPending' > fetchPending
            => /\ fetchPending' = fetchPending + 1
               /\ syncStatus = "idle" /\ syncStatus' = "syncing"
               /\ lastPost' = << [receipts |-> savedReceipts] >>
        /\ fetchPending' < fetchPending
            => (fetchPending' = fetchPending - 1 /\ lastPost' = << >>) ]_vars

\* A push made while the daily summary is shown, which lists nothing of the
\* one stored receipt: the body holds the receipt.
C26_Witness ==
    /\ activeFilter = "Daily" /\ filteredData = << >> /\ fetchPending = 1
    /\ lastPost = << [receipts |-> << StoredReceipt >>] >>

\* C27: at most one sync request is pending, and the status is 'syncing'
\* as long as one is.
C27_SyncingWhilePending ==
    /\ fetchPending <= 1
    /\ fetchPending > 0 => syncStatus = "syncing"

(***************************************************************************)
(* Specification of the year check of handleImageSelect: receipts dated    *)
(* in the current year, on its first day, in the year before and on the    *)
(* first day of the year after, read in three time zones at the start, in  *)
(* the course and at the end of 2025.                                      *)
(***************************************************************************)
NextNewYear == IsoText(2026, 1, 1)
ThisNewYear == IsoText(2025, 1, 1)
YearReplies ==
    { Reply(Str(Coffee), Num(120), d, Str(Other)) :
        d \in { NULL, Str(Today), Str(LastYear), Str(ThisNewYear), Str(NextNewYear),
                Str(Garbage) } }

InitYear ==
    /\ ExtractIdle
    /\ tz \in TimeZones
    /\ now \in { FromLocal(DaysFromCivil(2025, 1, 1), 0, tz),
                 FromLocal(DaysFromCivil(2025, 3, 6), 12 * MsPerHour, tz),
                 FromLocal(DaysFromCivil(2025, 12, 31), LastMs, tz) }
    /\ activeFilter = "All" /\ filteredData = << >> /\ periodTitle = AllTransactions
    /\ weekRange = NoRange /\ csvFile = NoFile
    /\ savedReceipts = << >> /\ SignedIn /\ PanelsIdle
NextYear ==
    \/ handleImageSelect
    \/ \E r \in YearReplies : ImageAnalyzed(r)
    \/ ImageAnalysisFailed
    \/ \E v \in TypedNames : handleChange("transaction_name", v)
    \/ \E v \in TypedAmounts : handleAmountChange(v)
    \/ handleDiscard
SpecYear == InitYear /\ [][NextYear]_vars

\* The year a date text names, and whether it names one.
NamesYear(d) == d.t = "string" /\ IsIsoDate(d.s)
YearNamed(d) == SubSeq(d.s, 1, 4)

\* C28: when the extracted date names a year other than the current one,
\* the step of handleImageSelect that receives it sets the error with both
\* years, leaves no candidate and clears the loading flag; a candidate is
\* set only when the date is absent or names the current year.
C28_WrongYearRejected ==
    [][ \A r \in YearReplies : ImageAnalyzed(r) =>
          LET d           == analyzeReceipt(r).transaction_date
              currentYear == YearText(now, tz)
          IN  /\ (NamesYear(d) /\ YearNamed(d) # currentYear) =>
                    /\ error' = WrongYear(YearNamed(d), currentYear)
                    /\ receiptData' = << >>
                    /\ ~ isLoading'
              /\ receiptData' # << >> =>
                    (~ Truthy(d) \/ (NamesYear(d) /\ YearNamed(d) = currentYear)) ]_vars

(***************************************************************************)
(* Properties of the error message and of the candidate across saves and   *)
(* deletes (Spec).                                                         *)
(***************************************************************************)

\* C29: when a create or delete request succeeds, the error message of the
\* App is null afterwards.
C29_SuccessClearsError ==
    [][ \A i \in 1..Len(inflight) :
          (addDocResolved(i) \/ deleteDocResolved(i)) => error' = NoError ]_vars

(***************************************************************************)
(* Specification of the saves: a user signs in and out, reviews a          *)
(* candidate or fills the manual entry, completely or not, and saves;      *)
(* the store accepts or refuses.                                           *)
(***************************************************************************)
InitSaves == Init
NextSaves ==
    \/ \E u \in Users \cup { NoUser } : onAuthStateChanged(u)
    \/ handleImageSelect
    \/ ImageAnalyzed(DatedVoiceReply)
    \/ \E v \in TypedNames : handleChange("transaction_name", v)
    \/ handleSave
    \/ handleDiscard
    \/ openManualEntry
    \/ onClose
    \/ \E v \in TypedNames : setManualField("transactionName", v)
    \/ \E v \in TypedAmounts : setManualField("totalAmount", v)
    \/ handleSubmit
    \/ \E i \in 1..Len(inflight) : addDocResolved(i)
    \/ \E i \in 1..Len(inflight) : addDocRejected(i)
SpecSaves == InitSaves /\ [][NextSaves]_vars

\* C30: a save that is refused for want of a user or of a field, and a save
\* whose create request fails, leave the candidate, the two forms and the
\* open flag of the manual entry as they are; a create request that succeeds
\* clears the candidate and closes the manual entry.
C30_FailedSaveKeepsForms ==
    [][ /\ (lastCall'.op = "save" \/ \E i \in 1..Len(inflight) : addDocRejected(i))
            => /\ receiptData' = receiptData /\ formData' = formData
               /\ showManualEntry' = showManualEntry /\ manual' = manual
        /\ (\E i \in 1..Len(inflight) : addDocResolved(i))
            => (receiptData' = << >> /\ ~ showManualEntry') ]_vars

\* The store has refused the save of the manual entry: the view is open with
\* the name typed, and nothing is pending.
C30_Witness ==
    /\ error = FailedToSave /\ inflight = << >>
    /\ showManualEntry /\ manual[1].transactionName = Coffee
    /\ manual[1].totalAmount = << "1", "2", "0" >>

====
